---- MODULE Spec2Model ----
(***************************************************************************)
(* A model of mutiny-core's WsIo (networking/ws_io.rs): the adapter that   *)
(* presents a gloo-net WebSocket as an AsyncRead + AsyncWrite byte stream. *)
(*                                                                         *)
(* WsIo::new splits the socket and spawns two tasks: the receive pump      *)
(* moves binary frames from the socket into the `incoming` channel, the    *)
(* send pump takes frames from the `outgoing` channel.  poll_read,         *)
(* poll_write, poll_flush and poll_close are the caller's operations.      *)
(*                                                                         *)
(* WsIo never inspects the bytes it carries, so every byte of a direction  *)
(* is tagged with its position in that direction's stream (1, 2, 3, ...):  *)
(* a lost, duplicated or reordered byte is then visible in the data.       *)
(***************************************************************************)
EXTENDS Naturals, Sequences, FiniteSets, TLC

\* Bounds of the model.
MaxFrameLen == 2    \* longest payload of one write call or one socket frame
MaxWrites == 2      \* poll_write calls in one behaviour
MaxRecv == 2        \* messages the socket delivers before it ends
MaxBuf == 2         \* largest caller buffer handed to poll_read

VARIABLES
    outgoing,       \* mpsc channel WsIo.outgoing -> send pump: queued Messages
    outClosed,      \* the outgoing channel has been closed (close_channel)
    sendPc,         \* send pump task: "loop" | "done"
    wsSent,         \* Messages transmitted on the socket's sink, in order
    wsClosed,       \* the sink's close has been performed
    recvPc,         \* receive pump task: "loop" | "done"
    srcEnd,         \* how the socket's stream ended: "open" | "err" | "none"
    incoming,       \* mpsc channel receive pump -> WsIo.incoming: queued Messages
    read_buffer,    \* WsIo.read_buffer: leftover bytes of an over-sized frame
    waker,          \* the wake-up of the latest poll_read, if it returned Pending
    rx,             \* history: Ok messages the socket's stream has yielded
    accepted,       \* history: the input buffers of the successful poll_write calls
    delivered,      \* history: the bytes the poll_read calls have returned
    eofSeen,        \* history: some poll_read has reported end-of-stream
    ret,            \* the most recent caller operation and what it returned
    tick,           \* flips with every caller operation
    \* payjoin.rs, the session store (PayjoinStorage over MutinyStorage)
    store,          \* the key-value storage: storage key -> stored value
    now,            \* the clock utils::now() reads, in seconds
    clockSteps,     \* how many times the clock has advanced
    expect,         \* history: public key -> its last persisted, not deleted Session
    calls,          \* persist_payjoin calls in flight, per concurrent caller
    lastSet,        \* history: the Session of the latest store write of a caller in flight
    pjRet,          \* the most recent PayjoinStorage operation and its result
    pjTick,         \* flips with every PayjoinStorage operation
    \* payjoin.rs, separate_headers_and_body
    response_bytes, \* the response handed to separate_headers_and_body
    split,          \* what separate_headers_and_body returned
    \* payjoin.rs, fetch_ohttp_keys
    ohttp_relay,    \* the relay argument of the call
    directory,      \* the directory argument of the call
    fpc,            \* where the call is: "idle", an await point, or "done"
    domain,         \* the TLS server name built from the directory's host
    opened,         \* history: the URLs WebSocket::open was called with
    wrapped,        \* history: how many times WsIo::new was called
    tls_stream,     \* what the TLS connector was given and the name it was given
    requests,       \* history: the requests written to the TLS stream
    flushed,        \* history: the TLS stream has been flushed
    stream,         \* the response stream: "open" | "eof" | "err"
    fresult,        \* what the call returned, with the cause of a failure
    \* scb/mod.rs, the static channel backups
    spc,            \* where the round trip under way is
    backup,         \* the StaticChannelBackup that was encoded
    scb,            \* the StaticChannelBackupStorage that was encoded or encrypted
    scb_bytes,      \* the bytes encode() returned
    scb_read,       \* what read() returned for those bytes
    scb_again,      \* the bytes encode() returned for the value read
    secret_key,     \* the key of encrypt
    encrypted,      \* the EncryptedSCB encrypt returned
    scb_string,     \* its to_string()
    parsed,         \* what from_str returned for that string
    decrypted       \* what decrypt returned

wsVars == <<outgoing, outClosed, sendPc, wsSent, wsClosed, recvPc, srcEnd,
            incoming, read_buffer, waker, rx, accepted, delivered, eofSeen, ret, tick>>
pjVars == <<store, now, clockSteps, expect, calls, lastSet, pjRet, pjTick>>
httpVars == <<response_bytes, split>>
fetchVars == <<ohttp_relay, directory, fpc, domain, opened, wrapped, tls_stream,
               requests, flushed, stream, fresult>>

scbVars == <<spc, backup, scb, scb_bytes, scb_read, scb_again, secret_key,
             encrypted, scb_string, parsed, decrypted>>

vars == <<wsVars, pjVars, httpVars, fetchVars, scbVars>>

----------------------------------------------------------------------------
\* Data

\* gloo_net::websocket::Message
Bytes(d) == [kind |-> "Bytes", data |-> d]
Text == [kind |-> "Text", data |-> <<>>]

\* What `source.next().await` yields: Some(Ok(msg)), Some(Err(_)) or None.
SomeOk(m) == [t |-> "ok", msg |-> m]
SomeErr == [t |-> "err", msg |-> Text]
StreamEnd == [t |-> "none", msg |-> Text]

RECURSIVE Flatten(_)
Flatten(frames) ==
    IF frames = <<>> THEN <<>> ELSE Head(frames) \o Flatten(Tail(frames))

IsBinary(m) == m.kind = "Bytes"
DataOf(msgs) == [i \in 1..Len(msgs) |-> msgs[i].data]
BinaryOf(msgs) == SelectSeq(msgs, IsBinary)

\* n fresh bytes following a stream of `sofar` bytes
Payload(sofar, n) == [i \in 1..n |-> sofar + i]

min(a, b) == IF a < b THEN a ELSE b
Take(s, n) == SubSeq(s, 1, n)

\* Mutation of Drain: nothing is kept.
Drain_keeps_nothing(s, n) == <<>>

Drain(s, n) == SubSeq(s, n + 1, Len(s))

----------------------------------------------------------------------------
\* futures::channel::mpsc, unbounded

\* Mutation of poll_ready: a closed channel still reports ready.
poll_ready_ignores_close(closed) == "ok"

\* UnboundedSender::poll_ready: ready while the channel is open
poll_ready(closed) == IF closed THEN "err" ELSE "ok"

\* Mutation of start_send: the payload is merged into the frame queued last.
start_send_coalesce(queue, msg) ==
    IF queue = <<>> THEN <<msg>>
    ELSE [queue EXCEPT ![Len(queue)] = Bytes(queue[Len(queue)].data \o msg.data)]

\* UnboundedSender::start_send / unbounded_send on an open channel
start_send(queue, msg) == Append(queue, msg)

\* Mutation of close_channel: closing a closed channel opens it again.
close_channel_toggles(closed) == ~closed

\* UnboundedSender::close_channel
close_channel(closed) == TRUE

\* Mutation of poll_next: a closed channel yields None although messages
\* are still queued.
poll_next_close_first(queue, closed) ==
    IF closed THEN [t |-> "none", msg |-> Text]
    ELSE IF queue # <<>> THEN [t |-> "some", msg |-> Head(queue)]
    ELSE [t |-> "pending", msg |-> Text]

\* UnboundedReceiver::poll_next: queued messages first, then None once the
\* channel is closed, otherwise Pending
poll_next(queue, closed) ==
    IF queue # <<>> THEN [t |-> "some", msg |-> Head(queue)]
    ELSE IF closed THEN [t |-> "none", msg |-> Text]
    ELSE [t |-> "pending", msg |-> Text]

\* Mutation of wake: a send does not wake the receiving task.
wake_never(w) == w

\* The channel wakes the task whose waker poll_next registered when it
\* returned Pending: on every send and when the last sender is dropped.
wake(w) == IF w = "registered" THEN "woken" ELSE w

----------------------------------------------------------------------------
\* The socket's sink as the send pump uses it

\* `let _ = sink.send(msg);` builds the Send future and drops it without
\* awaiting it: the future is never polled, so nothing reaches the socket.
sink_send(sent, msg) == sent

\* `let _ = sink.close();` likewise builds and drops the Close future.
sink_close(closed) == closed

----------------------------------------------------------------------------
NoRet == [op |-> "none", arg |-> 0, res |-> "ok", arm |-> "none", data |-> <<>>]

WsInit ==
    /\ outgoing = <<>>
    /\ outClosed = FALSE
    /\ sendPc = "loop"
    /\ wsSent = <<>>
    /\ wsClosed = FALSE
    /\ recvPc = "loop"
    /\ srcEnd = "open"
    /\ incoming = <<>>
    /\ read_buffer = <<>>
    /\ waker = "none"
    /\ rx = <<>>
    /\ accepted = <<>>
    /\ delivered = <<>>
    /\ eofSeen = FALSE
    /\ ret = NoRet
    /\ tick = FALSE

----------------------------------------------------------------------------
\* payjoin.rs: the data of the session store

\* More bounds of the model.
MaxClockSteps == 2  \* advances of the clock in one behaviour
MaxRespLen == 9     \* longest response handed to separate_headers_and_body

\* Duration::from_secs(60 * 60 * 24)
SecondsIn24Hours == 86400

\* Option<T>: None is <<>>, Some(v) is <<v>>
None == <<>>
Some(v) == <<v>>

\* Public keys ([u8; 33], here two bytes long) and enrollment credentials.
\* Two credentials can belong to the same public key.
Ids == {<<1, 16>>, <<1, 1>>}
Creds == {"a", "b"}
Enrollments == [pk : Ids, cred : Creds]

\* Enrolled::pubkey / Session::pubkey
pubkey(e) == e.pk
session_pubkey(session) == pubkey(session.enrolled)

\* DisplayHex::as_hex: two lower-case hexadecimal digits per byte
HexDigits == <<"0", "1", "2", "3", "4", "5", "6", "7",
               "8", "9", "a", "b", "c", "d", "e", "f">>
RECURSIVE as_hex(_)
as_hex(bytes) ==
    IF bytes = <<>> THEN <<>>
    ELSE <<HexDigits[(Head(bytes) \div 16) + 1], HexDigits[(Head(bytes) % 16) + 1]>>
         \o as_hex(Tail(bytes))

PAYJOIN_KEY_PREFIX == <<"payjoin/">>

\* Mutation of get_payjoin_key: only the first byte of the id is encoded.
get_payjoin_key_first_byte(id) == PAYJOIN_KEY_PREFIX \o as_hex(<<Head(id)>>)

get_payjoin_key(id) == PAYJOIN_KEY_PREFIX \o as_hex(id)

\* The storage holds other components' entries as well: one entry outside
\* the payjoin namespace, stored under a key that ends like a session's.
ForeignKey == <<"other/">> \o as_hex(<<1, 1>>)
ForeignValue == [enrolled |-> [pk |-> <<1, 1>>, cred |-> "foreign"], expiry |-> 0]

\* The concurrent callers of persist_payjoin
Callers == {1, 2}
IdleCall == [pc |-> "idle", session |-> None, res |-> "none"]

NoPjRet == [op |-> "none", id |-> <<>>, e |-> None, res |-> "ok", fault |-> FALSE,
            val |-> None, list |-> <<>>, at |-> 0, prev |-> None]

PjInit ==
    /\ store = (ForeignKey :> ForeignValue)
    /\ now = 0
    /\ clockSteps = 0
    /\ expect = [id \in Ids |-> None]
    /\ calls = [c \in Callers |-> IdleCall]
    /\ lastSet = None
    /\ pjRet = NoPjRet
    /\ pjTick = FALSE

\* separate_headers_and_body: carriage return, line feed, and any other byte
CR == 13
LF == 10
Alphabet == {CR, LF, 65}
NoSplit == [res |-> "none", headers |-> <<>>, body |-> <<>>, err |-> "none"]

HttpInit ==
    /\ response_bytes = <<>>
    /\ split = NoSplit

----------------------------------------------------------------------------
\* payjoin.rs: the data of fetch_ohttp_keys

MaxFetchLen == 6    \* longest response one call reads

\* The registry: the relays' hosts and the directory's host
OHTTP_RELAYS == <<"ohttp.payjoin.org", "ohttp-relay.obscuravpn.io", "pj.bobspacebkk.com">>
PAYJOIN_DIR == "payjo.in"

\* url::Url, as far as fetch_ohttp_keys looks at it: Url::host_str()
Url(h) == [host |-> Some(h)]
NoHostUrl == [host |-> None]
host_str(url) == url.host

\* The arguments a call can be given: any relay of the registry or an address
\* without a host; the directory, an address whose host is a relay's, one
\* whose host is no DNS name (an empty label), or an address without a host.
RelayUrls == {Url(OHTTP_RELAYS[i]) : i \in DOMAIN OHTTP_RELAYS} \cup {NoHostUrl}
DirectoryUrls == {Url(PAYJOIN_DIR), Url(OHTTP_RELAYS[1]), Url("a..b"), NoHostUrl}

\* rustls ServerName::try_from(directory_host)
is_dns_name(h) == h # "a..b"

\* Mutation of ServerName_try_from: every host is taken as a server name.
ServerName_try_from_accepts_all(h) == Some(h)

ServerName_try_from(h) == IF is_dns_name(h) THEN Some(h) ELSE None

\* Mutation of ws_url: the socket is opened to the directory.
ws_url_of_directory(host) == <<"wss://", PAYJOIN_DIR, ":443">>

\* format!("wss://{}:443", host)
ws_url(host) == <<"wss://", host, ":443">>

\* Mutation of ws_open: a failed open is tried once more.
ws_open_retries(urls, url, ok) ==
    IF ok THEN Append(urls, url) ELSE urls \o <<url, url>>

\* WebSocket::open(url): one connection attempt
ws_open(urls, url, ok) == Append(urls, url)

\* Mutation of ohttp_keys_req: the Host header is left empty.
ohttp_keys_req_no_host(directory_host) ==
    <<"GET /ohttp-keys HTTP/1.1", "\r\n", "Host: ", "", "\r\n",
      "Connection: close", "\r\n", "\r\n">>

\* format!("GET /ohttp-keys HTTP/1.1\r\nHost: {}\r\nConnection: close\r\n\r\n", ..)
ohttp_keys_req(directory_host) ==
    <<"GET /ohttp-keys HTTP/1.1", "\r\n", "Host: ", directory_host, "\r\n",
      "Connection: close", "\r\n", "\r\n">>

\* enum Error, the variants fetch_ohttp_keys returns
RequestFailed(text) == [variant |-> "RequestFailed", text |-> text]
BadDirectoryHost == [variant |-> "BadDirectoryHost", text |-> ""]

\* Mutation of BadOhttpWsHost: the relay's failure names the directory.
BadOhttpWsHost_names_directory == BadDirectoryHost

BadOhttpWsHost == [variant |-> "BadOhttpWsHost", text |-> ""]

\* Mutation of OhttpDecodeFailed: a decode failure is a failed request.
OhttpDecodeFailed_as_request == RequestFailed("Failed to decode ohttp keys")

OhttpDecodeFailed == [variant |-> "OhttpDecodeFailed", text |-> ""]

NoError == [variant |-> "none", text |-> ""]

\* e.to_string() of the errors of the TLS stream
IoErrors == {"connection reset", "unexpected end of file"}

\* .map_err(|e| Error::RequestFailed(e.to_string())): a transport fault
TransportFailure(e) == RequestFailed(e)

\* the failure separate_headers_and_body returns
FramingFailure == RequestFailed("No header-body separator found in the response")

\* payjoin::OhttpKeys::decode(res_body): the library accepts the body or not
decode(body, valid) == IF valid THEN Some([ohttp_keys |-> body]) ELSE None

\* Result<OhttpKeys, Error>, with the cause of a failure
NoResult == [res |-> "none", err |-> NoError, keys |-> None, cause |-> "none"]
Ok(keys) == [res |-> "ok", err |-> NoError, keys |-> keys, cause |-> "none"]
Err(e, cause) == [res |-> "err", err |-> e, keys |-> None, cause |-> cause]

NoTls == [over |-> "none", name |-> None]

FetchInit ==
    /\ ohttp_relay = NoHostUrl
    /\ directory = NoHostUrl
    /\ fpc = "idle"
    /\ domain = None
    /\ opened = <<>>
    /\ wrapped = 0
    /\ tls_stream = NoTls
    /\ requests = <<>>
    /\ flushed = FALSE
    /\ stream = "open"
    /\ fresult = NoResult

----------------------------------------------------------------------------
\* scb/mod.rs: the data of the static channel backups

MaxEntries == 3     \* entries in all the maps of one storage together
MaxMonitorLen == 1  \* longest channel monitor

\* bitcoin::secp256k1::PublicKey, serialized (33 bytes), and bitcoin::Txid
PublicKeyLen == 33
TxidLen == 32
PublicKeys == {<<2>> \o [i \in 1..(PublicKeyLen - 1) |-> 7],
               <<3>> \o [i \in 1..(PublicKeyLen - 1) |-> 7]}
OutPoints == {[txid |-> [i \in 1..TxidLen |-> 131], vout |-> 1],
              [txid |-> [i \in 1..TxidLen |-> 131], vout |-> 256]}

\* The channel monitors (Vec<u8>) and the peer connection strings (UTF-8)
Monitors == UNION {[1..n -> {255}] : n \in 0..MaxMonitorLen}
Connections == {<<>>, <<64, 49>>}

\* crate::nodemanager::NodeIndex { child_index, lsp, archived }
NodeIndexes == {[child_index |-> 0, lsp |-> None, archived |-> Some(FALSE)],
                [child_index |-> 1, lsp |-> Some(<<108>>), archived |-> None]}

\* HashMap<K, V>: the maps from some keys of K to V
Maps(K, V) == UNION {[D -> V] : D \in SUBSET K}
EmptyMap == [k \in {} |-> 0]

\* StaticChannelBackup and StaticChannelBackupStorage
StaticChannelBackups == [monitors : Maps(OutPoints, Monitors)]
Entries(st) ==
    Cardinality(DOMAIN st.backups) + Cardinality(DOMAIN st.peer_connections)
    + Cardinality(UNION {{<<pk, op>> : op \in DOMAIN st.backups[pk].backup.monitors} :
                            pk \in DOMAIN st.backups})
StaticChannelBackupStorages ==
    {st \in [backups : Maps(PublicKeys, [node_index : NodeIndexes,
                                          backup : StaticChannelBackups]),
             peer_connections : Maps(PublicKeys, Connections)] :
        Entries(st) <= MaxEntries}
DefaultBackup == [monitors |-> EmptyMap]
DefaultStorage == [backups |-> EmptyMap, peer_connections |-> EmptyMap]

\* SecretKey::secret_bytes() (32 bytes) and the random iv (16 bytes)
SecretKeyLen == 32
BlockLen == 16
SecretKeys == {[i \in 1..SecretKeyLen |-> 1], [i \in 1..SecretKeyLen |-> 2]}
Ivs == {[i \in 1..BlockLen |-> 0], [i \in 1..BlockLen |-> 200]}

\* Result<T, E>
NotYet == [res |-> "none", val |-> None, err |-> "none"]
Good(v) == [res |-> "ok", val |-> Some(v), err |-> "none"]
Bad(e) == [res |-> "err", val |-> None, err |-> e]

ScbInit ==
    /\ spc = "idle"
    /\ backup = DefaultBackup
    /\ scb = DefaultStorage
    /\ scb_bytes = None
    /\ scb_read = NotYet
    /\ scb_again = None
    /\ secret_key = None
    /\ encrypted = None
    /\ scb_string = None
    /\ parsed = [of |-> None, r |-> NotYet]
    /\ decrypted = [of |-> None, key |-> None, r |-> NotYet]

Init == WsInit /\ PjInit /\ HttpInit /\ FetchInit /\ ScbInit

\* The receive pump has ended, which drops its sender `read` and so closes
\* the incoming channel.
InClosed == recvPc = "done"

readVars == <<recvPc, srcEnd, incoming, read_buffer, waker, rx, delivered, eofSeen>>
writeVars == <<outgoing, outClosed, sendPc, wsSent, wsClosed, accepted>>

----------------------------------------------------------------------------
\* Receive pump: one iteration of `while let Some(msg) = source.next().await`

\* Mutation of recv_match: a text message is forwarded like a binary one.
recv_match_forwards_text(item) ==
    IF item.t = "ok" THEN "forward" ELSE "break"

\* The arm of `match msg` an item of the socket's stream takes.
recv_match(item) ==
    IF item.t = "ok" /\ item.msg.kind = "Text" THEN "ignore"
    ELSE IF item.t = "ok" /\ item.msg.kind = "Bytes" THEN "forward"
    ELSE "break"

RecvPump(item) ==
    /\ recvPc = "loop"
    /\ IF item.t # "none" /\ recv_match(item) = "ignore" THEN
            /\ incoming' = incoming
            /\ rx' = Append(rx, item.msg)
            /\ UNCHANGED <<recvPc, srcEnd, waker>>
       ELSE IF item.t # "none" /\ recv_match(item) = "forward" THEN
            /\ incoming' = start_send(incoming, Bytes(item.msg.data))
            /\ waker' = wake(waker)
            /\ rx' = Append(rx, item.msg)
            /\ UNCHANGED <<recvPc, srcEnd>>
       ELSE \* Some(Err(_)) breaks the loop, None ends it; `read` is dropped
            /\ recvPc' = "done"
            /\ srcEnd' = item.t
            /\ waker' = wake(waker)
            /\ UNCHANGED <<incoming, rx>>
    /\ UNCHANGED <<read_buffer, delivered, eofSeen, ret, tick>>
    /\ UNCHANGED writeVars
    /\ UNCHANGED <<pjVars, httpVars, fetchVars, scbVars>>

\* Send pump: one iteration of `while let Some(msg) = outgoing.next().await`
SendPumpNext ==
    /\ sendPc = "loop"
    /\ poll_next(outgoing, outClosed).t = "some"
    /\ wsSent' = sink_send(wsSent, Head(outgoing))
    /\ outgoing' = Tail(outgoing)
    /\ UNCHANGED <<outClosed, sendPc, wsClosed, accepted, ret, tick>>
    /\ UNCHANGED readVars
    /\ UNCHANGED <<pjVars, httpVars, fetchVars, scbVars>>

\* Send pump: the channel yields None, the loop ends, `sink.close()`
SendPumpEnd ==
    /\ sendPc = "loop"
    /\ poll_next(outgoing, outClosed).t = "none"
    /\ wsClosed' = sink_close(wsClosed)
    /\ sendPc' = "done"
    /\ UNCHANGED <<outgoing, outClosed, wsSent, accepted, ret, tick>>
    /\ UNCHANGED readVars
    /\ UNCHANGED <<pjVars, httpVars, fetchVars, scbVars>>

----------------------------------------------------------------------------
\* AsyncRead

ReadRet(n, res, arm, d) ==
    [op |-> "read", arg |-> n, res |-> res, arm |-> arm, data |-> d]

poll_read(n) ==
    /\ tick' = ~tick
    /\ UNCHANGED <<recvPc, srcEnd, rx>>
    /\ UNCHANGED writeVars
    /\ UNCHANGED <<pjVars, httpVars, fetchVars, scbVars>>
    /\ IF read_buffer # <<>> THEN
            LET len == min(n, Len(read_buffer)) IN
            /\ read_buffer' = Drain(read_buffer, len)
            /\ delivered' = delivered \o Take(read_buffer, len)
            /\ ret' = ReadRet(n, "ok", "buffer", Take(read_buffer, len))
            /\ waker' = "none"
            /\ UNCHANGED <<incoming, eofSeen>>
       ELSE LET p == poll_next(incoming, InClosed) IN
            IF p.t = "some" /\ p.msg.kind = "Bytes" THEN
                LET data == p.msg.data
                    len == min(n, Len(data)) IN
                /\ incoming' = Tail(incoming)
                /\ read_buffer' = IF Len(data) > len
                                  THEN read_buffer \o Drain(data, len)
                                  ELSE read_buffer
                /\ delivered' = delivered \o Take(data, len)
                /\ ret' = ReadRet(n, "ok", "frame", Take(data, len))
                /\ waker' = "none"
                /\ UNCHANGED eofSeen
            ELSE IF p.t = "some" THEN
                \* a non-binary message is taken and the poll reports Pending;
                \* poll_next returned Ready, so it registered no waker
                /\ incoming' = Tail(incoming)
                /\ waker' = "lost"
                /\ ret' = ReadRet(n, "pending", "nonbinary", <<>>)
                /\ UNCHANGED <<read_buffer, delivered, eofSeen>>
            ELSE IF p.t = "none" THEN
                /\ ret' = ReadRet(n, "ok", "eof", <<>>)
                /\ waker' = "none"
                /\ eofSeen' = TRUE
                /\ UNCHANGED <<incoming, read_buffer, delivered>>
            ELSE
                \* poll_next returned Pending and registered the task's waker
                /\ waker' = "registered"
                /\ ret' = ReadRet(n, "pending", "empty", <<>>)
                /\ UNCHANGED <<incoming, read_buffer, delivered, eofSeen>>

----------------------------------------------------------------------------
\* AsyncWrite

WriteRet(d, res, n) ==
    [op |-> "write", arg |-> n, res |-> res, arm |-> "none", data |-> d]

poll_write(data) ==
    /\ tick' = ~tick
    /\ UNCHANGED readVars
    /\ UNCHANGED <<outClosed, sendPc, wsSent, wsClosed>>
    /\ UNCHANGED <<pjVars, httpVars, fetchVars, scbVars>>
    /\ IF poll_ready(outClosed) = "ok" THEN
            /\ outgoing' = start_send(outgoing, Bytes(data))
            /\ accepted' = Append(accepted, data)
            /\ ret' = WriteRet(data, "ok", Len(data))
       ELSE
            /\ ret' = WriteRet(data, "err", 0)
            /\ UNCHANGED <<outgoing, accepted>>

\* Mutation of poll_flush: the flush discards the leftover read buffer.
poll_flush_clears_buffer ==
    /\ tick' = ~tick
    /\ ret' = [op |-> "flush", arg |-> 0, res |-> "ok", arm |-> "none", data |-> <<>>]
    /\ read_buffer' = <<>>
    /\ UNCHANGED <<recvPc, srcEnd, incoming, waker, rx, delivered, eofSeen>>
    /\ UNCHANGED writeVars
    /\ UNCHANGED <<pjVars, httpVars, fetchVars, scbVars>>

poll_flush ==
    /\ tick' = ~tick
    /\ ret' = [op |-> "flush", arg |-> 0, res |-> "ok", arm |-> "none", data |-> <<>>]
    /\ UNCHANGED readVars
    /\ UNCHANGED writeVars
    /\ UNCHANGED <<pjVars, httpVars, fetchVars, scbVars>>

poll_close ==
    /\ tick' = ~tick
    /\ outClosed' = close_channel(outClosed)
    /\ ret' = [op |-> "close", arg |-> 0, res |-> "ok", arm |-> "none", data |-> <<>>]
    /\ UNCHANGED <<outgoing, sendPc, wsSent, wsClosed, accepted>>
    /\ UNCHANGED readVars
    /\ UNCHANGED <<pjVars, httpVars, fetchVars, scbVars>>

----------------------------------------------------------------------------
\* The caller

Written == Len(Flatten(accepted))
CallWrite ==
    /\ Len(accepted) < MaxWrites
    /\ \E n \in 0..MaxFrameLen : poll_write(Payload(Written, n))

CallRead == \E n \in 0..MaxBuf : poll_read(n)

CallFlush == poll_flush

CallClose == poll_close

\* The remote endpoint is an arbitrary WebSocket server: the socket's stream
\* yields binary frames, text frames, an error, or ends.
RemoteItems ==
    (IF Len(rx) < MaxRecv
     THEN {SomeOk(Text)} \cup
          {SomeOk(Bytes(Payload(Len(Flatten(DataOf(BinaryOf(rx)))), n))) :
              n \in 0..MaxFrameLen}
     ELSE {})
    \cup {SomeErr, StreamEnd}

RecvFromRemote == \E item \in RemoteItems : RecvPump(item)

Next ==
    \/ CallWrite
    \/ CallRead
    \/ CallFlush
    \/ CallClose
    \/ SendPumpNext
    \/ SendPumpEnd
    \/ RecvFromRemote

Spec == Init /\ [][Next]_vars

\* The two directions of a WsIo share no state: `incoming` and `read_buffer`
\* are touched by poll_read and the receive pump only, `outgoing` by
\* poll_write, poll_close and the send pump only.  Each direction on its own:
NextRead == CallRead \/ RecvFromRemote

SpecRead == Init /\ [][NextRead]_vars

NextWrite == CallWrite \/ CallFlush \/ CallClose \/ SendPumpNext \/ SendPumpEnd

SpecWrite == Init /\ [][NextWrite]_vars

\* Two WsIo back to back, one direction of the connection: what one WsIo's
\* send pump transmits is what the peer WsIo's receive pump is handed, and
\* the peer's stream ends once the sink has been closed and every frame has
\* arrived.  The network may fail at any time.
WireDrained ==
    /\ Len(rx) = Len(wsSent)
    /\ wsClosed => recvPc = "done"

PeerItems ==
    (IF Len(rx) < Len(wsSent) THEN {SomeOk(wsSent[Len(rx) + 1])}
     ELSE IF wsClosed THEN {StreamEnd}
     ELSE {})
    \cup {SomeErr}

RecvFromPeer == \E item \in PeerItems : RecvPump(item)

NextPeer ==
    \/ CallWrite
    \/ CallFlush
    \/ CallClose
    \/ SendPumpNext
    \/ SendPumpEnd
    \/ RecvFromPeer
    \/ CallRead

SpecPeer == Init /\ [][NextPeer]_vars

\* The whole WsIo again, both directions at once, with the writes and the
\* socket's messages drawn from one budget.
Traffic == Len(accepted) + Len(rx)

DuplexWrite == Traffic < MaxWrites /\ CallWrite

DuplexRecv ==
    \E item \in RemoteItems :
        /\ item.t = "ok" => Traffic < MaxRecv
        /\ RecvPump(item)

NextDuplex ==
    \/ DuplexWrite
    \/ CallRead
    \/ CallFlush
    \/ CallClose
    \/ SendPumpNext
    \/ SendPumpEnd
    \/ DuplexRecv

SpecDuplex == Init /\ [][NextDuplex]_vars

----------------------------------------------------------------------------
\* MutinyStorage, the key-value storage behind PayjoinStorage: a map from
\* keys to values, each operation atomic

starts_with(key, prefix) ==
    Len(prefix) <= Len(key) /\ SubSeq(key, 1, Len(prefix)) = prefix

\* get_data(key): the value stored under the key, if any
get_data(st, key) == IF key \in DOMAIN st THEN Some(st[key]) ELSE None

\* set_data(key, value, None): stores the value, replacing what was there
set_data(st, key, value) ==
    [k \in DOMAIN st \cup {key} |-> IF k = key THEN value ELSE st[k]]

\* scan(prefix, None): the entries whose key starts with the prefix
scan(st, prefix) ==
    [k \in {k \in DOMAIN st : starts_with(k, prefix)} |-> st[k]]

\* delete(keys): removes the keys that are present
delete(st, keys) == [k \in DOMAIN st \ keys |-> st[k]]

----------------------------------------------------------------------------
\* impl PayjoinStorage for S

\* Mutation of new_session: the expiry is the time of the call.
new_session_expires_now(enrolled, t) == [enrolled |-> enrolled, expiry |-> t]

\* persist_payjoin: Session { enrolled, expiry: now() + 24 hours }
new_session(enrolled, t) ==
    [enrolled |-> enrolled, expiry |-> t + SecondsIn24Hours]

\* Mutation of persist_set: a Session already stored under the key is kept.
persist_set_keeps_existing(st, session) ==
    IF get_payjoin_key(session_pubkey(session)) \in DOMAIN st THEN st
    ELSE set_data(st, get_payjoin_key(session_pubkey(session)), session)

\* persist_payjoin: set_data(get_payjoin_key(&session.pubkey()), session, None)
persist_set(st, session) ==
    set_data(st, get_payjoin_key(session_pubkey(session)), session)

\* Mutation of lookup: a Session past its expiry is not returned.
lookup_drops_expired(st, id) ==
    IF /\ get_payjoin_key(id) \in DOMAIN st
       /\ st[get_payjoin_key(id)].expiry >= now
    THEN Some(st[get_payjoin_key(id)]) ELSE None

\* get_payjoin: get_data(get_payjoin_key(id))
lookup(st, id) == get_data(st, get_payjoin_key(id))

\* Mutation of scan_sessions: the whole storage is scanned.
scan_sessions_everything(st) == scan(st, <<>>)

\* get_payjoins: scan(PAYJOIN_KEY_PREFIX, None)
scan_sessions(st) == scan(st, PAYJOIN_KEY_PREFIX)

\* Mutation of delete_keys: the key is built without the namespace prefix.
delete_keys_no_prefix(id) == {as_hex(id)}

\* Mutation of delete_keys: every key of the namespace is deleted.
delete_keys_whole_namespace(id) == {get_payjoin_key(i) : i \in Ids}

\* delete_payjoin: &[get_payjoin_key(id)]
delete_keys(id) == {get_payjoin_key(id)}

\* map.values().collect(): the values of the map, one per key, in any order
Orderings(map) ==
    LET n == Cardinality(DOMAIN map) IN
    {[i \in 1..n |-> map[f[i]]] :
        f \in {g \in [1..n -> DOMAIN map] : \A i, j \in 1..n : g[i] = g[j] => i = j}}

\* What an operation returned (res, val, list), with what it was called with
\* (op, id, e), whether the storage failed (fault), the time of the call (at)
\* and what the history held for the key before it (prev).
PjRet(op, id, e, res, fault, val, list, at) ==
    [op |-> op, id |-> id, e |-> e, res |-> res, fault |-> fault,
     val |-> val, list |-> list, at |-> at,
     prev |-> IF id \in Ids THEN expect[id] ELSE None]

raceVars == <<calls, lastSet>>

\* Mutation of get_payjoin: a failure of the storage is answered with Ok(None).
get_payjoin_swallows_failure(id, fails) ==
    /\ pjTick' = ~pjTick
    /\ pjRet' = IF fails
                THEN PjRet("get", id, None, "ok", TRUE, None, <<>>, now)
                ELSE PjRet("get", id, None, "ok", FALSE, lookup(store, id), <<>>, now)
    /\ UNCHANGED <<store, now, clockSteps, expect, raceVars>>
    /\ UNCHANGED <<wsVars, httpVars, fetchVars, scbVars>>

\* get_payjoin(id); `fails` is whether the storage reports a failure
get_payjoin(id, fails) ==
    /\ pjTick' = ~pjTick
    /\ pjRet' = IF fails
                THEN PjRet("get", id, None, "err", TRUE, None, <<>>, now)
                ELSE PjRet("get", id, None, "ok", FALSE, lookup(store, id), <<>>, now)
    /\ UNCHANGED <<store, now, clockSteps, expect, raceVars>>
    /\ UNCHANGED <<wsVars, httpVars, fetchVars, scbVars>>

\* get_payjoins(); the map's values come in any order
get_payjoins(fails) ==
    /\ pjTick' = ~pjTick
    /\ IF fails
       THEN pjRet' = PjRet("get_all", <<>>, None, "err", TRUE, None, <<>>, now)
       ELSE \E order \in Orderings(scan_sessions(store)) :
                pjRet' = PjRet("get_all", <<>>, None, "ok", FALSE, None, order, now)
    /\ UNCHANGED <<store, now, clockSteps, expect, raceVars>>
    /\ UNCHANGED <<wsVars, httpVars, fetchVars, scbVars>>

\* persist_payjoin(enrolled)
persist_payjoin(enrolled, fails) ==
    LET session == new_session(enrolled, now) IN
    /\ pjTick' = ~pjTick
    /\ IF fails
       THEN /\ pjRet' = PjRet("persist", pubkey(enrolled), Some(enrolled), "err", TRUE,
                              None, <<>>, now)
            /\ UNCHANGED <<store, expect>>
       ELSE /\ store' = persist_set(store, session)
            /\ expect' = [expect EXCEPT ![pubkey(enrolled)] =
                              Some([enrolled |-> enrolled,
                                    expiry |-> now + SecondsIn24Hours])]
            /\ pjRet' = PjRet("persist", pubkey(enrolled), Some(enrolled), "ok", FALSE,
                              Some(session), <<>>, now)
    /\ UNCHANGED <<now, clockSteps, raceVars>>
    /\ UNCHANGED <<wsVars, httpVars, fetchVars, scbVars>>

\* delete_payjoin(id)
delete_payjoin(id, fails) ==
    /\ pjTick' = ~pjTick
    /\ IF fails
       THEN /\ pjRet' = PjRet("delete", id, None, "err", TRUE, None, <<>>, now)
            /\ UNCHANGED <<store, expect>>
       ELSE /\ store' = delete(store, delete_keys(id))
            /\ expect' = [expect EXCEPT ![id] = None]
            /\ pjRet' = PjRet("delete", id, None, "ok", FALSE, None, <<>>, now)
    /\ UNCHANGED <<now, clockSteps, raceVars>>
    /\ UNCHANGED <<wsVars, httpVars, fetchVars, scbVars>>

\* Time passes: by a second, or by the 24 hours of a Session's life
AdvanceClock ==
    /\ clockSteps < MaxClockSteps
    /\ \E dt \in {1, SecondsIn24Hours} : now' = now + dt
    /\ clockSteps' = clockSteps + 1
    /\ UNCHANGED <<store, expect, raceVars, pjRet, pjTick>>
    /\ UNCHANGED <<wsVars, httpVars, fetchVars, scbVars>>

CallGet == \E id \in Ids, fails \in BOOLEAN : get_payjoin(id, fails)
CallGetAll == \E fails \in BOOLEAN : get_payjoins(fails)
CallPersist == \E e \in Enrollments, fails \in BOOLEAN : persist_payjoin(e, fails)
CallDelete == \E id \in Ids, fails \in BOOLEAN : delete_payjoin(id, fails)

NextStore ==
    \/ CallGet
    \/ CallGetAll
    \/ CallPersist
    \/ CallDelete
    \/ AdvanceClock

\* The session store used by one caller at a time
SpecStore == Init /\ [][NextStore]_vars

\* persist_payjoin called by several callers at once: the clock is read and
\* the Session built first, the storage's set_data happens later, and other
\* callers' steps can come in between.
PersistBegin(c, enrolled) ==
    /\ calls[c].pc = "idle"
    /\ calls' = [calls EXCEPT ![c] =
                    [pc |-> "set", session |-> Some(new_session(enrolled, now)),
                     res |-> "none"]]
    /\ UNCHANGED <<store, now, clockSteps, expect, lastSet, pjRet, pjTick>>
    /\ UNCHANGED <<wsVars, httpVars, fetchVars, scbVars>>

PersistSet(c, fails) ==
    /\ calls[c].pc = "set"
    /\ IF fails
       THEN /\ calls' = [calls EXCEPT ![c].pc = "done", ![c].res = "err"]
            /\ UNCHANGED <<store, expect, lastSet>>
       ELSE /\ store' = persist_set(store, calls[c].session[1])
            /\ expect' = [expect EXCEPT ![session_pubkey(calls[c].session[1])] =
                              calls[c].session]
            /\ lastSet' = calls[c].session
            /\ calls' = [calls EXCEPT ![c].pc = "done", ![c].res = "ok"]
    /\ UNCHANGED <<now, clockSteps, pjRet, pjTick>>
    /\ UNCHANGED <<wsVars, httpVars, fetchVars, scbVars>>

RaceBegin == \E c \in Callers, e \in Enrollments : PersistBegin(c, e)
RaceSet == \E c \in Callers, fails \in BOOLEAN : PersistSet(c, fails)

NextRace ==
    \/ RaceBegin
    \/ RaceSet
    \/ AdvanceClock

SpecRace == Init /\ [][NextRace]_vars

----------------------------------------------------------------------------
\* separate_headers_and_body

separator == <<CR, LF, CR, LF>>

\* response_bytes.windows(separator.len()): the start of every window, from 0
windows(bytes) == 0..(Len(bytes) - Len(separator))

Matches(bytes) ==
    {i \in windows(bytes) : SubSeq(bytes, i + 1, i + Len(separator)) = separator}

\* Mutation of position: the last matching window is taken.
position_last(bytes) ==
    IF Matches(bytes) = {} THEN None
    ELSE Some(CHOOSE i \in Matches(bytes) : \A j \in Matches(bytes) : j <= i)

\* .position(|window| window == separator): the first matching window
position(bytes) ==
    IF Matches(bytes) = {} THEN None
    ELSE Some(CHOOSE i \in Matches(bytes) : \A j \in Matches(bytes) : i <= j)

separate_headers_and_body(bytes) ==
    IF position(bytes) # None THEN
        LET body_start_index == position(bytes)[1] + Len(separator) IN
        [res |-> "ok",
         headers |-> SubSeq(bytes, 1, position(bytes)[1]),
         body |-> SubSeq(bytes, body_start_index + 1, Len(bytes)),
         err |-> "none"]
    ELSE [res |-> "err", headers |-> <<>>, body |-> <<>>, err |-> "RequestFailed"]

Responses == UNION {[1..n -> Alphabet] : n \in 0..MaxRespLen}

Separate ==
    /\ split = NoSplit
    /\ split' = separate_headers_and_body(response_bytes)
    /\ UNCHANGED response_bytes
    /\ UNCHANGED <<wsVars, pjVars, fetchVars, scbVars>>

InitSplit ==
    /\ WsInit
    /\ PjInit
    /\ FetchInit
    /\ ScbInit
    /\ response_bytes \in Responses
    /\ split = NoSplit

NextSplit == Separate

SpecSplit == InitSplit /\ [][NextSplit]_vars

----------------------------------------------------------------------------
\* fetch_ohttp_keys(ohttp_relay, directory)

\* What the TLS stream's read yields: some bytes, the end of the stream, or
\* an error.
Data(bytes) == [t |-> "data", bytes |-> bytes, text |-> ""]
Eof == [t |-> "eof", bytes |-> <<>>, text |-> ""]
ReadErr(text) == [t |-> "err", bytes |-> <<>>, text |-> text]

\* Mutation of read_to_end: the read stops at the first CRLFCRLF.
read_to_end_until_separator(buf, item) ==
    IF item.t = "data"
    THEN [buf |-> buf \o item.bytes,
          ret |-> IF position(buf \o item.bytes) # None THEN "ok" ELSE "more"]
    ELSE IF item.t = "eof" THEN [buf |-> buf, ret |-> "ok"]
    ELSE [buf |-> buf, ret |-> "err"]

\* AsyncReadExt::read_to_end, one read of its loop: bytes are appended to the
\* buffer, a zero-length read ends it with Ok, an error ends it with Err
read_to_end(buf, item) ==
    IF item.t = "data" THEN [buf |-> buf \o item.bytes, ret |-> "more"]
    ELSE IF item.t = "eof" THEN [buf |-> buf, ret |-> "ok"]
    ELSE [buf |-> buf, ret |-> "err"]

\* `return Err(e)` / the final expression: the call is over
Return(result) == fresult' = result /\ fpc' = "done"

\* The call, up to the directory's server name (lines 74-89)
Begin(relay, dir) ==
    /\ fpc = "idle"
    /\ ohttp_relay' = relay
    /\ directory' = dir
    /\ IF host_str(dir) = None
       THEN Return(Err(BadDirectoryHost, "directory_host")) /\ UNCHANGED domain
       ELSE IF ServerName_try_from(host_str(dir)[1]) = None
       THEN Return(Err(BadDirectoryHost, "directory_host")) /\ UNCHANGED domain
       ELSE /\ domain' = ServerName_try_from(host_str(dir)[1])
            /\ fpc' = "open"
            /\ UNCHANGED fresult
    /\ UNCHANGED <<opened, wrapped, tls_stream, requests, flushed, stream>>
    /\ UNCHANGED <<wsVars, pjVars, httpVars, scbVars>>

\* WebSocket::open(&format!("wss://{}:443", relay host)) (lines 91-95);
\* `ok` is whether the open succeeds
OpenWebSocket(ok) ==
    /\ fpc = "open"
    /\ IF host_str(ohttp_relay) = None
       THEN Return(Err(BadOhttpWsHost, "relay_host")) /\ UNCHANGED opened
       ELSE /\ opened' = ws_open(opened, ws_url(host_str(ohttp_relay)[1]), ok)
            /\ IF ok THEN fpc' = "connect" /\ UNCHANGED fresult
               ELSE Return(Err(BadOhttpWsHost, "open"))
    /\ UNCHANGED <<ohttp_relay, directory, domain, wrapped, tls_stream, requests,
                   flushed, stream>>
    /\ UNCHANGED <<wsVars, pjVars, httpVars, scbVars>>

\* tls_connector.connect(domain, ws).await (lines 97-100): the handshake runs
\* over the WebSocket itself; `e` is the error of the handshake, if any
Connect(e) ==
    /\ fpc = "connect"
    /\ tls_stream' = [over |-> "WebSocket", name |-> domain]
    /\ IF e = None THEN fpc' = "write" /\ UNCHANGED fresult
       ELSE Return(Err(TransportFailure(e[1]), "transport"))
    /\ UNCHANGED <<ohttp_relay, directory, domain, opened, wrapped, requests,
                   flushed, stream>>
    /\ UNCHANGED <<wsVars, pjVars, httpVars, scbVars>>

\* tls_stream.write_all(ohttp_keys_req.as_bytes()).await (lines 101-108)
WriteAll(e) ==
    /\ fpc = "write"
    /\ IF e = None
       THEN /\ requests' = Append(requests, ohttp_keys_req(host_str(directory)[1]))
            /\ fpc' = "flush"
            /\ UNCHANGED fresult
       ELSE /\ Return(Err(TransportFailure(e[1]), "transport"))
            /\ UNCHANGED requests
    /\ UNCHANGED <<ohttp_relay, directory, domain, opened, wrapped, tls_stream,
                   flushed, stream>>
    /\ UNCHANGED <<wsVars, pjVars, httpVars, scbVars>>

\* tls_stream.flush().await (lines 109-112)
Flush(e) ==
    /\ fpc = "flush"
    /\ IF e = None
       THEN flushed' = TRUE /\ fpc' = "read" /\ UNCHANGED fresult
       ELSE Return(Err(TransportFailure(e[1]), "transport")) /\ UNCHANGED flushed
    /\ UNCHANGED <<ohttp_relay, directory, domain, opened, wrapped, tls_stream,
                   requests, stream>>
    /\ UNCHANGED <<wsVars, pjVars, httpVars, scbVars>>

\* tls_stream.read_to_end(&mut response_bytes).await, one read of it, and
\* when it has ended the split and the decoding (lines 113-119); `valid` is
\* whether the library accepts the body
ReadToEnd(item, valid) ==
    LET r == read_to_end(response_bytes, item) IN
    /\ fpc = "read"
    /\ response_bytes' = r.buf
    /\ stream' = IF item.t = "data" THEN stream ELSE item.t
    /\ IF r.ret = "more" THEN UNCHANGED <<fpc, fresult, split>>
       ELSE IF r.ret = "err"
       THEN Return(Err(TransportFailure(item.text), "transport")) /\ UNCHANGED split
       ELSE LET sp == separate_headers_and_body(r.buf) IN
            /\ split' = sp
            /\ IF sp.res = "err"
               THEN Return(Err([variant |-> sp.err, text |-> FramingFailure.text],
                               "framing"))
               ELSE IF decode(sp.body, valid) = None
               THEN Return(Err(OhttpDecodeFailed, "decode"))
               ELSE Return(Ok(decode(sp.body, valid)))
    /\ UNCHANGED <<ohttp_relay, directory, domain, opened, wrapped, tls_stream,
                   requests, flushed>>
    /\ UNCHANGED <<wsVars, pjVars, scbVars>>

Outcomes == {None} \cup {Some(e) : e \in IoErrors}

Chunks ==
    UNION {[1..n -> Alphabet] :
              n \in 1..min(MaxFrameLen, MaxFetchLen - Len(response_bytes))}

StreamItems == {Data(c) : c \in Chunks} \cup {Eof} \cup {ReadErr(e) : e \in IoErrors}

CallFetch == \E relay \in RelayUrls, dir \in DirectoryUrls : Begin(relay, dir)
FetchOpen == \E ok \in BOOLEAN : OpenWebSocket(ok)
FetchConnect == \E e \in Outcomes : Connect(e)
FetchWrite == \E e \in Outcomes : WriteAll(e)
FetchFlush == \E e \in Outcomes : Flush(e)
FetchRead == \E item \in StreamItems, valid \in BOOLEAN : ReadToEnd(item, valid)

NextFetch ==
    \/ CallFetch
    \/ FetchOpen
    \/ FetchConnect
    \/ FetchWrite
    \/ FetchFlush
    \/ FetchRead

SpecFetch == Init /\ [][NextFetch]_vars

----------------------------------------------------------------------------
\* scb/mod.rs: Writeable and Readable

\* u32::to_be_bytes and the u32 Readable (big endian)
to_be_bytes(n) ==
    <<(n \div 16777216) % 256, (n \div 65536) % 256, (n \div 256) % 256, n % 256>>

\* Values from 2^31 on stand as 2^31 - 1: each is a count or a length that no
\* input of the model can satisfy.
from_be_bytes(b) ==
    IF b[1] > 127 THEN 2147483647
    ELSE b[1] * 16777216 + b[2] * 65536 + b[3] * 256 + b[4]

\* A reader's answer: the value read and the bytes left, or a DecodeError
ReadOk(v, rest) == [ok |-> TRUE, val |-> v, rest |-> rest, panic |-> FALSE]
ReadFailed == [ok |-> FALSE, val |-> <<>>, rest |-> <<>>, panic |-> FALSE]
\* .expect(..) on a value that is no public key or no UTF-8
ReadPanicked == [ok |-> FALSE, val |-> <<>>, rest |-> <<>>, panic |-> TRUE]

\* reader.read_exact(&mut [0u8; n])
read_exact(bytes, n) ==
    IF Len(bytes) < n THEN ReadFailed
    ELSE ReadOk(SubSeq(bytes, 1, n), SubSeq(bytes, n + 1, Len(bytes)))

\* let x = <value>; <rest>
Let(value, rest(_)) == CHOOSE result \in {rest(x) : x \in {value}} : TRUE

\* let x = <read>?; <rest>: go on with what was read, or return the error
Try(read, rest(_)) ==
    CHOOSE result \in {IF r.ok THEN rest(r) ELSE r : r \in {read}} : TRUE

\* let len: u32 = Readable::read(reader)?
read_u32(bytes) ==
    Try(read_exact(bytes, 4), LAMBDA r : ReadOk(from_be_bytes(r.val), r.rest))

\* HashMap::insert
insert(map, k, v) == [x \in DOMAIN map \cup {k} |-> IF x = k THEN v ELSE map[x]]

\* for (k, v) in map.iter(): the keys of the map in the order of one iteration
iter(map) ==
    LET n == Cardinality(DOMAIN map) IN
    {f \in [1..n -> DOMAIN map] : \A i, j \in 1..n : f[i] = f[j] => i = j}

\* impl Writeable for StaticChannelBackup, iterating the monitors in `order`
write_backup(b, order) ==
    to_be_bytes(Len(order))
    \o Flatten([i \in 1..Len(order) |->
            order[i].txid \o to_be_bytes(order[i].vout)
            \o to_be_bytes(Len(b.monitors[order[i]])) \o b.monitors[order[i]]])

\* StaticChannelBackup::encode(): the bytes one call may return
encode_backup(b) == {write_backup(b, order) : order \in iter(b.monitors)}

\* impl Readable for StaticChannelBackup: the loop over 0..len
RECURSIVE read_monitors(_, _, _)
read_monitors(bytes, n, monitors) ==
    IF n = 0 THEN ReadOk([monitors |-> monitors], bytes)
    ELSE
        Try(read_exact(bytes, TxidLen), LAMBDA txid :
        Try(read_u32(txid.rest), LAMBDA vout :
        Try(read_u32(vout.rest), LAMBDA mon_len :
        Try(read_exact(mon_len.rest, mon_len.val), LAMBDA mon :
            read_monitors(mon.rest, n - 1,
                insert(monitors, [txid |-> txid.val, vout |-> vout.val], mon.val))))))

read_backup(bytes) ==
    Try(read_u32(bytes), LAMBDA len : read_monitors(len.rest, len.val, EmptyMap))

\* NodeIndex as Writeable: the child index, then each Option with a presence byte
write_node_index(ni) ==
    to_be_bytes(ni.child_index)
    \o (IF ni.lsp = None THEN <<0>>
        ELSE <<1>> \o to_be_bytes(Len(ni.lsp[1])) \o ni.lsp[1])
    \o (IF ni.archived = None THEN <<0>>
        ELSE <<1, IF ni.archived[1] THEN 1 ELSE 0>>)

\* NodeIndex as Readable
read_option(bytes, read_some(_)) ==
    Try(read_exact(bytes, 1), LAMBDA tag :
        IF tag.val = <<0>> THEN ReadOk(None, tag.rest)
        ELSE IF tag.val = <<1>>
             THEN Try(read_some(tag.rest), LAMBDA v : ReadOk(Some(v.val), v.rest))
        ELSE ReadFailed)
read_string(bytes) ==
    Try(read_u32(bytes), LAMBDA len : read_exact(len.rest, len.val))
read_bool(bytes) ==
    Try(read_exact(bytes, 1), LAMBDA b :
        IF b.val[1] > 1 THEN ReadFailed ELSE ReadOk(b.val[1] = 1, b.rest))
read_node_index(bytes) ==
    Try(read_u32(bytes), LAMBDA child_index :
    Try(read_option(child_index.rest, read_string), LAMBDA lsp :
    Try(read_option(lsp.rest, read_bool), LAMBDA archived :
        ReadOk([child_index |-> child_index.val, lsp |-> lsp.val,
                archived |-> archived.val], archived.rest))))

\* impl Writeable for StaticChannelBackupStorage: the backups in the order
\* `bo`, the backup of pk written as mo[pk], the peer connections in `po`
write_storage(st, bo, mo, po) ==
    to_be_bytes(Len(bo))
    \o Flatten([i \in 1..Len(bo) |->
            bo[i] \o write_node_index(st.backups[bo[i]].node_index) \o mo[bo[i]]])
    \o to_be_bytes(Len(po))
    \o Flatten([i \in 1..Len(po) |->
            po[i] \o to_be_bytes(Len(st.peer_connections[po[i]]))
            \o st.peer_connections[po[i]]])

\* StaticChannelBackupStorage::encode(): the bytes one call may return
encode_storage(st) ==
    LET written == UNION {encode_backup(st.backups[pk].backup) : pk \in DOMAIN st.backups}
    IN  {write_storage(st, bo, mo, po) :
            bo \in iter(st.backups),
            mo \in {f \in [DOMAIN st.backups -> written] :
                        \A pk \in DOMAIN st.backups :
                            f[pk] \in encode_backup(st.backups[pk].backup)},
            po \in iter(st.peer_connections)}

\* PublicKey::from_slice(..).expect(..) and String::from_utf8(..).expect(..)
is_public_key(b) == Len(b) = PublicKeyLen /\ b[1] \in {2, 3}
is_utf8(b) == \A i \in 1..Len(b) : b[i] < 128

\* impl Readable for StaticChannelBackupStorage: the loop over the backups
RECURSIVE read_backups(_, _, _)
read_backups(bytes, n, backups) ==
    IF n = 0 THEN ReadOk(backups, bytes)
    ELSE
        Try(read_exact(bytes, PublicKeyLen), LAMBDA pk :
            IF ~is_public_key(pk.val) THEN ReadPanicked
            ELSE
        Try(read_node_index(pk.rest), LAMBDA node_index :
        Try(read_backup(node_index.rest), LAMBDA b :
            read_backups(b.rest, n - 1,
                insert(backups, pk.val,
                       [node_index |-> node_index.val, backup |-> b.val])))))

\* impl Readable for StaticChannelBackupStorage: the loop over the peers
RECURSIVE read_peers(_, _, _)
read_peers(bytes, n, peers) ==
    IF n = 0 THEN ReadOk(peers, bytes)
    ELSE
        Try(read_exact(bytes, PublicKeyLen), LAMBDA pk :
            IF ~is_public_key(pk.val) THEN ReadPanicked
            ELSE
        Try(read_u32(pk.rest), LAMBDA len :
        Try(read_exact(len.rest, len.val), LAMBDA str :
            IF ~is_utf8(str.val) THEN ReadPanicked
            ELSE read_peers(str.rest, n - 1, insert(peers, pk.val, str.val)))))

\* Mutation of read_storage: the peer connections are not read.
read_storage_without_peers(bytes) ==
    Try(read_u32(bytes), LAMBDA len :
    Try(read_backups(len.rest, len.val, EmptyMap), LAMBDA backups :
        ReadOk([backups |-> backups.val, peer_connections |-> EmptyMap], backups.rest)))
read_storage(bytes) ==
    Try(read_u32(bytes), LAMBDA len :
    Try(read_backups(len.rest, len.val, EmptyMap), LAMBDA backups :
    Try(read_u32(backups.rest), LAMBDA peer_len :
    Try(read_peers(peer_len.rest, peer_len.val, EmptyMap), LAMBDA peers :
        ReadOk([backups |-> backups.val, peer_connections |-> peers.val],
               peers.rest)))))

\* What a read returned to its caller
Panicked == [res |-> "panic", val |-> None, err |-> "none"]
DecodeErr == "DecodeError"
read_result(r) ==
    IF r.ok THEN Good(r.val)
    ELSE IF r.panic THEN Panicked
    ELSE Bad(DecodeErr)

----------------------------------------------------------------------------
\* scb/mod.rs: encryption and the string form

\* Pkcs7: pad to whole blocks with n bytes of value n, 1 <= n <= BlockLen
pkcs7_pad(bytes) ==
    LET n == BlockLen - (Len(bytes) % BlockLen) IN bytes \o [i \in 1..n |-> n]

\* Pkcs7 unpad: <<>> for an UnpadError, else <<the bytes without the padding>>
pkcs7_unpad(bytes) ==
    LET len == Len(bytes)
        n == bytes[len]
    IN  IF len = 0 \/ len % BlockLen # 0 THEN None
        ELSE IF n = 0 \/ n > BlockLen THEN None
        ELSE IF \E i \in (len - n + 1)..len : bytes[i] # n THEN None
        ELSE Some(SubSeq(bytes, 1, len - n))

\* The block cipher under the key, stood for by a keyed permutation of bytes
key_byte(key, n) == key[((n - 1) % SecretKeyLen) + 1]

\* Aes256CbcEnc: each block is combined with the block of ciphertext before it
\* (the iv for the first) and then enciphered
cbc_encrypt(key, iv, plain) ==
    LET c[n \in 1..Len(plain)] ==
            (plain[n] + (IF n <= BlockLen THEN iv[n] ELSE c[n - BlockLen])
             + key_byte(key, n)) % 256
    IN  <<>> \o [n \in 1..Len(plain) |-> c[n]]

\* Aes256CbcDec
cbc_decrypt(key, iv, cipher) ==
    <<>> \o [n \in 1..Len(cipher) |->
        (cipher[n] + 512 - (IF n <= BlockLen THEN iv[n] ELSE cipher[n - BlockLen])
         - key_byte(key, n)) % 256]

\* StaticChannelBackupStorage::encrypt with the encoding `bytes` and the iv drawn
\* Mutation of encrypt: the EncryptedSCB carries a zero iv, not the one used.
encrypt_drops_iv(key, iv, bytes) ==
    Let(pkcs7_pad(bytes), LAMBDA padded :
        [encrypted_scb |-> cbc_encrypt(key, iv, padded),
         iv |-> [i \in 1..BlockLen |-> 0]])
encrypt(key, iv, bytes) ==
    Let(pkcs7_pad(bytes), LAMBDA padded :
        [encrypted_scb |-> cbc_encrypt(key, iv, padded), iv |-> iv])

InvalidMnemonic == "InvalidMnemonic"

\* EncryptedSCB::decrypt
decrypt(e, key) ==
    Let(cbc_decrypt(key, e.iv, e.encrypted_scb), LAMBDA blocks :
    Let(pkcs7_unpad(blocks), LAMBDA result :
        IF result = None THEN Bad(InvalidMnemonic)
        ELSE Let(read_storage(result[1]), LAMBDA st :
                 IF st.ok THEN Good(st.val) ELSE Panicked)))

\* impl Writeable for EncryptedSCB
write_encrypted(e) == to_be_bytes(Len(e.encrypted_scb)) \o e.encrypted_scb \o e.iv

\* impl Readable for EncryptedSCB
read_encrypted(bytes) ==
    Try(read_u32(bytes), LAMBDA len :
    Try(read_exact(len.rest, len.val), LAMBDA encrypted_scb :
    Try(read_exact(encrypted_scb.rest, BlockLen), LAMBDA iv :
        ReadOk([encrypted_scb |-> encrypted_scb.val, iv |-> iv.val], iv.rest))))

\* bech32::convert_bits: the values of `from` bits each, most significant bit
\* first, are one stream of bits that is cut into values of `to` bits each.
\* With `pad` the last value is filled with zero bits; without, bits left over
\* are an error when they are a whole value or not all zero. <<>> for an error.
Pow2(n) == IF n = 0 THEN 1 ELSE IF n = 1 THEN 2 ELSE IF n = 2 THEN 4
           ELSE IF n = 3 THEN 8 ELSE IF n = 4 THEN 16 ELSE IF n = 5 THEN 32
           ELSE IF n = 6 THEN 64 ELSE IF n = 7 THEN 128 ELSE 256
bit_at(data, from, k) ==
    IF k >= Len(data) * from THEN 0
    ELSE (data[(k \div from) + 1] \div Pow2(from - 1 - (k % from))) % 2
RECURSIVE bits_value(_, _, _, _)
bits_value(data, from, k, n) ==
    IF n = 0 THEN 0
    ELSE bit_at(data, from, k) * Pow2(n - 1) + bits_value(data, from, k + 1, n - 1)
convert_bits(data, from, to, pad) ==
    LET total == Len(data) * from
        whole == total \div to
        left == total % to
    IN  IF \E i \in 1..Len(data) : data[i] >= Pow2(from) THEN None
        ELSE IF pad
             THEN Some(<<>> \o [j \in 1..(whole + (IF left > 0 THEN 1 ELSE 0)) |->
                                    bits_value(data, from, to * (j - 1), to)])
        ELSE IF left >= from \/ bits_value(data, from, to * whole, left) # 0 THEN None
        ELSE Some(<<>> \o [j \in 1..whole |-> bits_value(data, from, to * (j - 1), to)])

\* ToBase32 for bytes and Vec::<u8>::from_base32
to_base32(bytes) == convert_bits(bytes, 8, 5, TRUE)[1]
from_base32(data) == convert_bits(data, 5, 8, FALSE)

\* bech32::encode: the human readable part, the data and a checksum that
\* binds both under the constant of the variant
checksum(hrp, data, variant) == [over |-> <<hrp, data>>, variant |-> variant]
bech32_encode(hrp, data, variant) ==
    [hrp |-> hrp, data |-> data, sum |-> checksum(hrp, data, variant)]

\* bech32::decode: <<>> for an error, else <<hrp, data, variant>> with the
\* variant the checksum verifies under
bech32_decode(str) ==
    IF \E v \in {"Bech32", "Bech32m"} : str.sum = checksum(str.hrp, str.data, v)
    THEN Some([hrp |-> str.hrp, data |-> str.data, variant |-> str.sum.variant])
    ELSE None

\* impl Display for EncryptedSCB
to_string(e) ==
    Let(write_encrypted(e), LAMBDA bytes :
    Let(to_base32(bytes), LAMBDA data : bech32_encode("scb", data, "Bech32m")))

\* impl FromStr for EncryptedSCB
from_str(str) ==
    Let(bech32_decode(str), LAMBDA decoded :
        IF decoded = None THEN Bad("InvalidValue")
        ELSE IF decoded[1].hrp # "scb" \/ decoded[1].variant # "Bech32m"
             THEN Bad("InvalidValue")
        ELSE Let(from_base32(decoded[1].data), LAMBDA bytes :
                 IF bytes = None THEN Bad("InvalidValue")
                 ELSE Let(read_encrypted(bytes[1]), LAMBDA r : read_result(r))))

----------------------------------------------------------------------------
\* scb/mod.rs: the round trips, step by step

\* let bytes = backup.encode()
EncodeBackup(b, bytes) ==
    /\ spc = "idle"
    /\ bytes \in encode_backup(b)
    /\ spc' = "backup_encoded"
    /\ backup' = b
    /\ scb_bytes' = Some(bytes)
    /\ UNCHANGED <<scb, scb_read, scb_again, secret_key, encrypted, scb_string,
                   parsed, decrypted>>
    /\ UNCHANGED <<wsVars, pjVars, httpVars, fetchVars>>

\* StaticChannelBackup::read(&mut Cursor::new(bytes))
ReadBackup ==
    /\ spc = "backup_encoded"
    /\ spc' = "backup_read"
    /\ scb_read' = read_result(read_backup(scb_bytes[1]))
    /\ UNCHANGED <<backup, scb, scb_bytes, scb_again, secret_key, encrypted,
                   scb_string, parsed, decrypted>>
    /\ UNCHANGED <<wsVars, pjVars, httpVars, fetchVars>>

\* let bytes = storage.encode()
EncodeStorage(st, bytes) ==
    /\ spc = "idle"
    /\ bytes \in encode_storage(st)
    /\ spc' = "encoded"
    /\ scb' = st
    /\ scb_bytes' = Some(bytes)
    /\ UNCHANGED <<backup, scb_read, scb_again, secret_key, encrypted, scb_string,
                   parsed, decrypted>>
    /\ UNCHANGED <<wsVars, pjVars, httpVars, fetchVars>>

\* StaticChannelBackupStorage::read(&mut Cursor::new(bytes))
ReadStorage ==
    /\ spc = "encoded"
    /\ spc' = "read"
    /\ scb_read' = read_result(read_storage(scb_bytes[1]))
    /\ UNCHANGED <<backup, scb, scb_bytes, scb_again, secret_key, encrypted,
                   scb_string, parsed, decrypted>>
    /\ UNCHANGED <<wsVars, pjVars, httpVars, fetchVars>>

\* decoded.encode(), for the value a read returned
EncodeAgain ==
    /\ spc \in {"read", "backup_read"}
    /\ scb_read.res = "ok"
    /\ spc' = IF spc = "read" THEN "again" ELSE "backup_again"
    /\ \E bytes \in (IF spc = "read" THEN encode_storage(scb_read.val[1])
                     ELSE encode_backup(scb_read.val[1])) :
            scb_again' = Some(bytes)
    /\ UNCHANGED <<backup, scb, scb_bytes, scb_read, secret_key, encrypted,
                   scb_string, parsed, decrypted>>
    /\ UNCHANGED <<wsVars, pjVars, httpVars, fetchVars>>

\* storage.encrypt(&secret_key), with the iv that rand::random() returned
Encrypt(st, key, iv, bytes) ==
    /\ spc = "idle"
    /\ bytes \in encode_storage(st)
    /\ spc' = "encrypted"
    /\ scb' = st
    /\ secret_key' = Some(key)
    /\ encrypted' = Some(encrypt(key, iv, bytes))
    /\ UNCHANGED <<backup, scb_bytes, scb_read, scb_again, scb_string, parsed,
                   decrypted>>
    /\ UNCHANGED <<wsVars, pjVars, httpVars, fetchVars>>

\* encrypted.to_string()
Display ==
    /\ spc = "encrypted"
    /\ spc' = "string"
    /\ scb_string' = Some(to_string(encrypted[1]))
    /\ UNCHANGED <<backup, scb, scb_bytes, scb_read, scb_again, secret_key,
                   encrypted, parsed, decrypted>>
    /\ UNCHANGED <<wsVars, pjVars, httpVars, fetchVars>>

\* The strings a caller may hand to from_str: the one to_string returned, the
\* same data under another human readable part, and as plain bech32
Strings(str) ==
    {str, bech32_encode("lnbc", str.data, "Bech32m"),
     bech32_encode("scb", str.data, "Bech32")}

\* EncryptedSCB::from_str(&str)
FromStr(str) ==
    /\ spc = "string"
    /\ spc' = "parsed"
    /\ parsed' = [of |-> Some(str), r |-> from_str(str)]
    /\ UNCHANGED <<backup, scb, scb_bytes, scb_read, scb_again, secret_key,
                   encrypted, scb_string, decrypted>>
    /\ UNCHANGED <<wsVars, pjVars, httpVars, fetchVars>>

\* e.decrypt(&key), for the EncryptedSCB made or the one parsed
Decrypt(e, key) ==
    /\ spc \in {"encrypted", "parsed"}
    /\ spc' = "decrypted"
    /\ decrypted' = [of |-> Some(e), key |-> Some(key), r |-> decrypt(e, key)]
    /\ UNCHANGED <<backup, scb, scb_bytes, scb_read, scb_again, secret_key,
                   encrypted, scb_string, parsed>>
    /\ UNCHANGED <<wsVars, pjVars, httpVars, fetchVars>>

CallEncodeBackup ==
    \E b \in StaticChannelBackups : \E bytes \in encode_backup(b) :
        EncodeBackup(b, bytes)
CallEncodeStorage ==
    \E st \in StaticChannelBackupStorages : \E bytes \in encode_storage(st) :
        EncodeStorage(st, bytes)
CallEncrypt ==
    \E st \in StaticChannelBackupStorages, key \in SecretKeys, iv \in Ivs :
        \E bytes \in encode_storage(st) : Encrypt(st, key, iv, bytes)
CallFromStr ==
    /\ scb_string # None
    /\ \E str \in Strings(scb_string[1]) : FromStr(str)
CallDecrypt ==
    /\ encrypted # None
    /\ \E e \in {encrypted[1]} \cup (IF parsed.r.res = "ok" THEN {parsed.r.val[1]} ELSE {}),
          key \in SecretKeys : Decrypt(e, key)

NextCodec ==
    \/ CallEncodeBackup
    \/ ReadBackup
    \/ CallEncodeStorage
    \/ ReadStorage
    \/ EncodeAgain

SpecCodec == Init /\ [][NextCodec]_vars

NextEncrypted ==
    \/ CallEncrypt
    \/ Display
    \/ CallFromStr
    \/ CallDecrypt

SpecEncrypted == Init /\ [][NextEncrypted]_vars

----------------------------------------------------------------------------
\* Properties

IsPrefix(a, b) == Len(a) <= Len(b) /\ a = SubSeq(b, 1, Len(a))

\* the bytes of the binary frames the socket has yielded, in order
AllReceived == Flatten(DataOf(BinaryOf(rx)))

\* steps of the caller's operations
ReadStep == tick' # tick /\ ret'.op = "read"
WriteStep == tick' # tick /\ ret'.op = "write"
CloseStep == tick' # tick /\ ret'.op = "close"

\* C1: the bytes written through one WsIo are the bytes the peer WsIo reads:
\* the peer never reads anything but a prefix of what was written, and once
\* nothing is left in flight (send queue, socket, receive queue and leftover
\* buffer all empty, network not failed) it has read all of it.
C1_PeerReadsWhatWasWritten ==
    /\ IsPrefix(delivered, Flatten(accepted))
    /\ (/\ recvPc = "loop"
        /\ outgoing = <<>>
        /\ WireDrained
        /\ incoming = <<>>
        /\ read_buffer = <<>>) => delivered = Flatten(accepted)

\* C2: poll_write on an open WsIo succeeds, appends exactly one binary frame
\* holding the whole input buffer to the outbound queue, leaves the frames
\* queued before untouched, and returns the length of the input.
C2_WriteEnqueuesOneWholeFrame ==
    [][WriteStep /\ ~outClosed =>
        /\ ret'.res = "ok"
        /\ outgoing' = Append(outgoing, Bytes(ret'.data))
        /\ ret'.arg = Len(ret'.data)
        /\ accepted' = Append(accepted, ret'.data)]_vars

C2_Witness ==
    /\ ret.op = "write" /\ ret.res = "ok"
    /\ Len(ret.data) >= 2
    /\ Len(outgoing) = 2
    /\ outgoing[1].data # <<>>
    /\ outgoing[2] = Bytes(ret.data)

\* C3: every frame a write has accepted is either still queued or has been
\* transmitted on the socket, exactly once and in the order of the writes;
\* when the send pump has ended, all of them have been transmitted.
C3_AcceptedFramesAreTransmitted ==
    /\ DataOf(wsSent) \o DataOf(outgoing) = accepted
    /\ sendPc = "done" => DataOf(wsSent) = accepted

C5_WriteAfterCloseFails ==
    [][/\ CloseStep => outClosed'
       /\ outClosed => outClosed'
       /\ WriteStep /\ outClosed =>
            /\ ret'.res = "err"
            /\ outgoing' = outgoing
            /\ accepted' = accepted]_vars

C5_Witness ==
    /\ outClosed
    /\ ret.op = "write" /\ ret.res = "err" /\ ret.data # <<>>
    /\ Len(accepted) >= 1
    /\ outgoing # <<>>

\* C6: after one side has closed its outbound side, the peer's reads report
\* end-of-stream exactly once: a read polled when the closing side's send
\* pump has ended and nothing is left in flight has seen end-of-stream, and
\* no read reports end-of-stream a second time.
C6_PeerSeesExactlyOneEof ==
    [][ReadStep /\ outClosed =>
        /\ (/\ sendPc = "done"
            /\ WireDrained
            /\ incoming = <<>>
            /\ read_buffer = <<>>) => eofSeen'
        /\ eofSeen => ret'.arm # "eof"]_vars

\* C7: a poll_write with an empty buffer leaves the outbound queue and the
\* frames sent on the socket as they were.
C7_EmptyWriteEmitsNoFrame ==
    [][WriteStep /\ ret'.data = <<>> =>
        outgoing' = outgoing /\ wsSent' = wsSent]_vars

\* C8: poll_close closes the outbound channel and returns success at once;
\* when the send pump has ended after it, every frame enqueued before the
\* close has been transmitted and the socket has been closed.
C8_CloseDrainsThenClosesSocket ==
    /\ ret.op = "close" => outClosed /\ ret.res = "ok"
    /\ sendPc = "done" => wsClosed /\ Len(wsSent) = Len(accepted)

\* C9: a receive error of the socket is surfaced as an error: once the
\* socket's stream has failed, no read reports end-of-stream, and a read
\* with nothing left to deliver returns an error.
C9_SocketErrorSurfacesAsError ==
    [][ReadStep /\ srcEnd = "err" =>
        /\ ret'.arm # "eof"
        /\ (incoming = <<>> /\ read_buffer = <<>>) => ret'.res = "err"]_vars

\* C10: a text frame taken by the receive pump changes nothing but the
\* history: it is not queued, ends nothing and fails nothing.  The inbound
\* queue holds binary frames only, the bytes read, left over and queued are
\* the bytes of the binary frames received, in order, and a read made while
\* no binary frame has arrived on the open socket is pending.
C10_TextFramesAreDropped ==
    [][/\ (Len(rx') > Len(rx) /\ rx'[Len(rx')].kind = "Text") =>
            /\ incoming' = incoming
            /\ recvPc' = "loop" /\ srcEnd' = "open"
            /\ UNCHANGED <<read_buffer, delivered, ret>>
       /\ \A i \in 1..Len(incoming') : incoming'[i].kind = "Bytes"
       /\ delivered' \o read_buffer' \o Flatten(DataOf(incoming')) = AllReceived'
       /\ (ReadStep /\ BinaryOf(rx) = <<>> /\ recvPc = "loop") =>
            ret'.res = "pending" /\ delivered' = <<>>]_vars

C10_Witness ==
    /\ Len(rx) = 2
    /\ rx[1].kind = "Text" /\ rx[2].kind = "Bytes"
    /\ recvPc = "loop"
    /\ delivered = rx[2].data
    /\ Len(delivered) >= 2
    /\ ret.op = "read" /\ ret.res = "pending"

\* steps of the PayjoinStorage operations
GetStep == pjTick' # pjTick /\ pjRet'.op = "get"
GetAllStep == pjTick' # pjTick /\ pjRet'.op = "get_all"
PersistStep == pjTick' # pjTick /\ pjRet'.op = "persist"
DeleteStep == pjTick' # pjTick /\ pjRet'.op = "delete"
FlushStep == tick' # tick /\ ret'.op = "flush"

\* what the storage holds under the key of a public key
StoredUnder(st, id) == get_data(st, get_payjoin_key(id))

\* the payjoin entries of the storage whose Session belongs to a public key
SessionsIn(st, pk) ==
    {k \in DOMAIN st : starts_with(k, PAYJOIN_KEY_PREFIX) /\ session_pubkey(st[k]) = pk}

\* the Sessions persisted and not deleted since
Expected == {expect[id][1] : id \in {i \in Ids : expect[i] # None}}

Range(seq) == {seq[i] : i \in 1..Len(seq)}

\* C11: poll_flush returns success and changes neither direction of the
\* WsIo: queues, leftover buffer, channel states and pumps stay as they were.
C11_FlushChangesNothing ==
    [][FlushStep =>
        /\ ret'.res = "ok"
        /\ UNCHANGED <<outgoing, incoming, read_buffer>>
        /\ UNCHANGED <<readVars, writeVars>>]_vars

C11_Witness ==
    /\ ret.op = "flush"
    /\ outClosed
    /\ outgoing # <<>>
    /\ read_buffer # <<>>

\* C12: persist_payjoin(e) returns the Session of e that expires 24 hours
\* after the call, and a get_payjoin(pubkey(e)) that follows it, however
\* much later, returns that same Session; in general get_payjoin returns the
\* Session of the key's last persist when no delete came after it.
C12_PersistThenGet ==
    [][/\ (PersistStep /\ ~pjRet'.fault) =>
            /\ pjRet'.res = "ok"
            /\ pjRet'.val = Some([enrolled |-> pjRet'.e[1],
                                  expiry |-> pjRet'.at + SecondsIn24Hours])
            /\ pjRet'.at = now
       /\ (/\ GetStep /\ ~pjRet'.fault
           /\ pjRet.op = "persist" /\ pjRet.res = "ok"
           /\ pjRet'.id = pubkey(pjRet.e[1])) =>
            /\ pjRet'.res = "ok"
            /\ pjRet'.val = pjRet.val
            /\ pjRet'.val[1].enrolled = pjRet.e[1]
            /\ pjRet'.val[1].expiry = pjRet.at + SecondsIn24Hours
       /\ (GetStep /\ ~pjRet'.fault /\ expect[pjRet'.id] # None) =>
            pjRet'.val = expect[pjRet'.id]]_vars

C12_Witness ==
    /\ pjRet.op = "get" /\ pjRet.res = "ok"
    /\ pjRet.val # None
    /\ pjRet.val[1].expiry = 1 + SecondsIn24Hours
    /\ pjRet.at = 2

\* C13: the storage never holds more than one Session of a public key, and
\* a persist_payjoin for a key that has a Session succeeds and leaves the
\* Session it returns as the only one of that key.
C13_OneSessionPerKey ==
    [][/\ \A pk \in Ids : Cardinality(SessionsIn(store', pk)) <= 1
       /\ (PersistStep /\ ~pjRet'.fault /\ SessionsIn(store, pjRet'.id) # {}) =>
            /\ pjRet'.res = "ok"
            /\ SessionsIn(store', pjRet'.id) = {get_payjoin_key(pjRet'.id)}
            /\ StoredUnder(store', pjRet'.id) = pjRet'.val
            /\ pjRet'.val[1].enrolled = pjRet'.e[1]]_vars

C13_Witness ==
    /\ pjRet.op = "persist" /\ pjRet.res = "ok"
    /\ pjRet.prev # None
    /\ pjRet.prev[1].enrolled # pjRet.e[1]
    /\ StoredUnder(store, pjRet.id) = pjRet.val

\* C14: get_payjoins returns the Sessions persisted and not deleted since,
\* each once and no other value, in some order.
C14_GetAllReturnsTheLiveSessions ==
    [][(GetAllStep /\ ~pjRet'.fault) =>
        /\ pjRet'.res = "ok"
        /\ Range(pjRet'.list) = Expected
        /\ Len(pjRet'.list) = Cardinality(Expected)]_vars

C14_Witness ==
    /\ pjRet.op = "get_all" /\ pjRet.res = "ok"
    /\ Len(pjRet.list) = 2
    /\ pjRet.list[1].expiry > pjRet.list[2].expiry

\* C15: delete_payjoin(id) succeeds whether or not a Session is stored under
\* id and leaves none stored under it, and a get_payjoin(id) that follows
\* returns None.
C15_DeleteThenGetIsEmpty ==
    [][/\ (DeleteStep /\ ~pjRet'.fault) =>
            /\ pjRet'.res = "ok"
            /\ get_payjoin_key(pjRet'.id) \notin DOMAIN store'
            /\ SessionsIn(store', pjRet'.id) = {}
       /\ (/\ GetStep /\ ~pjRet'.fault
           /\ pjRet.op = "delete" /\ pjRet.res = "ok"
           /\ pjRet'.id = pjRet.id) =>
            pjRet'.res = "ok" /\ pjRet'.val = None]_vars

C15_Witness ==
    /\ pjRet.op = "delete" /\ pjRet.res = "ok"
    /\ pjRet.prev = None
    /\ Expected # {}

\* C16: get_payjoin(id) for a public key that has no Session (never
\* persisted, or deleted since) returns Ok(None) and leaves the storage as it
\* was.
C16_GetOfAbsentKeyIsNone ==
    [][(GetStep /\ ~pjRet'.fault /\ expect[pjRet'.id] = None) =>
        /\ pjRet'.res = "ok"
        /\ pjRet'.val = None
        /\ store' = store]_vars

C16_Witness ==
    /\ pjRet.op = "get" /\ pjRet.res = "ok"
    /\ pjRet.val = None
    /\ Expected # {}

\* C17: what is stored under a public key changes only in a persist_payjoin
\* or delete_payjoin for that key; the passing of time changes nothing, and
\* get_payjoin and get_payjoins return a Session as it was persisted also
\* after its expiry.
C17_NoEvictionOnExpiry ==
    [][/\ \A id \in Ids :
            StoredUnder(store', id) # StoredUnder(store, id) =>
                (PersistStep \/ DeleteStep) /\ pjRet'.id = id
       /\ now' # now => store' = store
       /\ (GetStep /\ ~pjRet'.fault) =>
            /\ store' = store
            /\ pjRet'.val = StoredUnder(store, pjRet'.id)
       /\ (GetAllStep /\ ~pjRet'.fault) =>
            /\ store' = store
            /\ \A id \in Ids : StoredUnder(store, id) # None =>
                    StoredUnder(store, id)[1] \in Range(pjRet'.list)]_vars

C17_Witness ==
    /\ pjRet.op = "get" /\ pjRet.res = "ok"
    /\ pjRet.val # None
    /\ pjRet.val[1].expiry < pjRet.at

\* C18 as stated: a persist_payjoin(e) that follows a persist_payjoin(e)
\* leaves the storage as it was and returns the same Session.
C18_PersistIsIdempotent ==
    [][(/\ PersistStep /\ ~pjRet'.fault
        /\ pjRet.op = "persist" /\ pjRet.res = "ok"
        /\ pjRet'.e = pjRet.e) =>
        store' = store /\ pjRet'.val = pjRet.val]_vars

\* C18 as amended: the repeated persist_payjoin(e) keeps the keys of the
\* storage, every other entry and the enrollment under pubkey(e), and stores
\* and returns the expiry of the second call; storage and result are those
\* of the first call when both calls read the same time.
C18_RepeatedPersistRefreshesExpiry ==
    [][(/\ PersistStep /\ ~pjRet'.fault
        /\ pjRet.op = "persist" /\ pjRet.res = "ok"
        /\ pjRet'.e = pjRet.e) =>
        /\ DOMAIN store' = DOMAIN store
        /\ \A k \in DOMAIN store \ {get_payjoin_key(pjRet'.id)} : store'[k] = store[k]
        /\ StoredUnder(store', pjRet'.id) = pjRet'.val
        /\ pjRet'.val[1].enrolled = pjRet.val[1].enrolled
        /\ pjRet'.val[1].expiry = pjRet'.at + SecondsIn24Hours
        /\ pjRet'.at = pjRet.at => store' = store /\ pjRet'.val = pjRet.val]_vars

C18_Witness ==
    /\ pjRet.op = "persist" /\ pjRet.res = "ok"
    /\ pjRet.prev # None
    /\ pjRet.prev[1].enrolled = pjRet.e[1]
    /\ pjRet.prev[1].expiry < pjRet.val[1].expiry

\* C19: when two concurrent persist_payjoin calls for the same public key
\* have both completed successfully, the storage holds exactly one Session
\* of that key, and it is the Session of the store write that came last.
BothPersisted(pk) ==
    \A c \in Callers :
        /\ calls[c].pc = "done" /\ calls[c].res = "ok"
        /\ session_pubkey(calls[c].session[1]) = pk

C19_ConcurrentPersistLastWriteWins ==
    \A pk \in Ids : BothPersisted(pk) =>
        /\ SessionsIn(store, pk) = {get_payjoin_key(pk)}
        /\ StoredUnder(store, pk) = lastSet
        /\ \E c \in Callers : lastSet = calls[c].session

C19_Witness ==
    /\ BothPersisted(<<1, 16>>)
    /\ calls[1].session[1].enrolled # calls[2].session[1].enrolled
    /\ calls[1].session[1].expiry < calls[2].session[1].expiry
    /\ StoredUnder(store, <<1, 16>>) = calls[1].session

\* C20: when the response contains CRLFCRLF the split succeeds, headers,
\* CRLFCRLF and body make up the response, and no CRLFCRLF starts before the
\* one the split was made at.
Contains(bytes, sub) ==
    \E i \in 1..(Len(bytes) + 1 - Len(sub)) : SubSeq(bytes, i, i + Len(sub) - 1) = sub

C20_SplitAtFirstSeparator ==
    (split # NoSplit /\ Contains(response_bytes, <<CR, LF, CR, LF>>)) =>
        /\ split.res = "ok"
        /\ split.headers \o <<CR, LF, CR, LF>> \o split.body = response_bytes
        /\ ~Contains(split.headers \o <<CR, LF, CR>>, <<CR, LF, CR, LF>>)

C20_Witness ==
    /\ split.res = "ok"
    /\ split.headers # <<>>
    /\ Contains(split.body, <<CR, LF, CR, LF>>)

\* steps of fetch_ohttp_keys
FetchReturns == fresult.res = "none" /\ fresult'.res # "none"
RelayUsable == host_str(ohttp_relay) # None
DirectoryUsable ==
    /\ host_str(directory) # None
    /\ host_str(directory)[1] # "a..b"

\* C21: when the response holds no CRLFCRLF, separate_headers_and_body
\* fails and returns neither headers nor body, the call fails with that
\* failure, and the failure is none a transport fault is reported with.
C21_NoSeparatorIsADistinctFailure ==
    (split # NoSplit /\ ~Contains(response_bytes, <<CR, LF, CR, LF>>)) =>
        /\ split.res = "err"
        /\ split.headers = <<>> /\ split.body = <<>>
        /\ fresult.res = "err"
        /\ \A e \in IoErrors : fresult.err.variant # TransportFailure(e).variant

\* C22: the call returns the decode failure exactly when the library
\* rejects the body, which happens only after the handshake, the request,
\* the flush, the read up to the end of the stream and the split have all
\* succeeded; that failure is none a transport fault or a missing separator
\* is reported with.
C22_DecodeFailureIsDistinct ==
    /\ (fresult.err.variant = "OhttpDecodeFailed") = (fresult.cause = "decode")
    /\ fresult.cause = "decode" =>
          /\ fresult.res = "err"
          /\ tls_stream # NoTls
          /\ Len(requests) = 1
          /\ flushed
          /\ stream = "eof"
          /\ split.res = "ok"
    /\ fresult.cause \in {"transport", "framing"} =>
          fresult.err.variant = "RequestFailed"
    /\ \A e \in IoErrors : TransportFailure(e).variant # "OhttpDecodeFailed"
    /\ FramingFailure.variant # "OhttpDecodeFailed"

C22_Witness ==
    /\ fresult.cause = "decode"
    /\ fresult.err.variant = "OhttpDecodeFailed"
    /\ split.headers # <<>>
    /\ split.body # <<>>

\* C23: a call given an address without a usable host goes no further than
\* the host checks, opens no WebSocket, and fails with the failure of a host
\* that is at fault: the directory's whenever the directory has no usable
\* host (also when the relay has none either), the relay's when only the
\* relay has none.
C23_BadHostFailureNamesTheHost ==
    (fpc # "idle" /\ ~(RelayUsable /\ DirectoryUsable)) =>
        /\ fpc \in {"open", "done"}
        /\ opened = <<>>
        /\ fpc = "open" => DirectoryUsable
        /\ fpc = "done" =>
              /\ fresult.res = "err"
              /\ ~DirectoryUsable => fresult.err.variant = "BadDirectoryHost"
              /\ DirectoryUsable => fresult.err.variant = "BadOhttpWsHost"

C23_Witness ==
    /\ fpc = "done"
    /\ ~RelayUsable
    /\ directory = Url(PAYJOIN_DIR)
    /\ fresult.err.variant = "BadOhttpWsHost"

\* C24: each cause of a failing call has an outcome of its own: a failure to
\* open the WebSocket to a relay whose host is usable is not reported as a
\* bad host, and a transport fault is not reported with the outcome of a
\* response without separator.
C24_EachCauseHasItsOwnOutcome ==
    fresult.res = "err" =>
        /\ fresult.cause = "transport" => fresult.err.variant # FramingFailure.variant
        /\ fresult.cause = "framing" =>
              \A e \in IoErrors : fresult.err.variant # TransportFailure(e).variant
        /\ fresult.cause = "open" =>
              fresult.err.variant \notin {"BadOhttpWsHost", "BadDirectoryHost"}

\* C25: the TLS server name and the Host header of the request are the
\* directory's host and the WebSocket is opened to the relay's host; when the
\* two hosts differ, the relay's is in neither of the former and the
\* directory's is not the latter.
C25_DirectoryNamesTlsRelayCarries ==
    /\ domain # None => domain = host_str(directory)
    /\ tls_stream # NoTls => tls_stream.name = host_str(directory)
    /\ \A i \in 1..Len(requests) :
          /\ requests[i][3] = "Host: "
          /\ requests[i][4] = host_str(directory)[1]
          /\ host_str(ohttp_relay) # host_str(directory) =>
                requests[i][4] # host_str(ohttp_relay)[1]
    /\ \A i \in 1..Len(opened) :
          /\ opened[i] = <<"wss://", host_str(ohttp_relay)[1], ":443">>
          /\ host_str(ohttp_relay) # host_str(directory) =>
                opened[i][2] # host_str(directory)[1]
    /\ (tls_stream # NoTls /\ host_str(ohttp_relay) # host_str(directory)) =>
          tls_stream.name # host_str(ohttp_relay)

C25_Witness ==
    /\ fresult.res = "ok"
    /\ ohttp_relay = Url(OHTTP_RELAYS[2])
    /\ directory = Url(OHTTP_RELAYS[1])
    /\ Len(requests) = 1
    /\ tls_stream.name = Some(OHTTP_RELAYS[1])

\* C26: the TLS handshake and the HTTP exchange run over a WsIo that wraps
\* the WebSocket opened before: the TLS connector is given a WsIo and never
\* the WebSocket itself, and a request is written only through it.
C26_TlsRunsOverWsIo ==
    /\ tls_stream.over \in {"none", "WsIo"}
    /\ tls_stream.over # "none" => wrapped = 1 /\ Len(opened) = 1
    /\ requests # <<>> => tls_stream.over = "WsIo"

\* C27: the call returns key material only in the step in which the response
\* stream ends; what it decodes is the part after the first CRLFCRLF of all
\* the bytes read until then, none of which is dropped on the way; while the
\* stream stays open the call stays in its read, whatever has been received.
C27_SuccessOnlyAtEndOfStream ==
    [][/\ (FetchReturns /\ fresult'.res = "ok") =>
            /\ fpc = "read"
            /\ stream = "open" /\ stream' = "eof"
            /\ response_bytes' = response_bytes
            /\ Contains(response_bytes, <<CR, LF, CR, LF>>)
            /\ \E h \in 0..Len(response_bytes) :
                  /\ ~Contains(SubSeq(response_bytes, 1, h) \o <<CR, LF, CR>>,
                               <<CR, LF, CR, LF>>)
                  /\ SubSeq(response_bytes, 1, h) \o <<CR, LF, CR, LF>>
                        \o fresult'.keys[1].ohttp_keys = response_bytes
       /\ fpc = "read" => IsPrefix(response_bytes, response_bytes')
       /\ (fpc = "read" /\ stream' = "open") =>
            fpc' = "read" /\ fresult' = NoResult]_vars

C27_Witness ==
    /\ fresult.res = "ok"
    /\ stream = "eof"
    /\ Len(response_bytes) = 6
    /\ fresult.keys[1].ohttp_keys # <<>>
    /\ split.headers # <<>>

\* C28: a call opens at most one WebSocket, to the relay it was given, and
\* writes at most one request, after that open; a successful call has
\* written exactly one.  A failure ends the call in the step it occurs in,
\* and a call that has returned does nothing more.
C28_OneConnectionOneRequestNoRetry ==
    [][/\ Len(opened') <= 1
       /\ Len(requests') <= 1
       /\ \A i \in 1..Len(opened') :
             opened'[i] = <<"wss://", host_str(ohttp_relay')[1], ":443">>
       /\ requests' # <<>> => Len(opened') = 1
       /\ fresult'.res = "ok" => Len(requests') = 1
       /\ fresult'.res # "none" => fpc' = "done"
       /\ fpc = "done" => UNCHANGED fetchVars]_vars

C28_Witness ==
    /\ fpc = "done"
    /\ fresult.res = "err"
    /\ fresult.cause = "transport"
    /\ ohttp_relay = Url(OHTTP_RELAYS[3])
    /\ Len(opened) = 1
    /\ Len(requests) = 1

\* C29: a read with leftover bytes returns the first min(buffer size,
\* leftover length) of them and leaves the inbound queue alone; a read
\* without leftover takes one frame off the queue when there is one, returns
\* its first min(buffer size, frame length) bytes and keeps the rest as
\* leftover.  No read returns more bytes than the buffer holds, and the bytes
\* of one read all belong to one received frame.
C29_LeftoverFirstOneFrameAtATime ==
    [][ReadStep =>
        /\ Len(ret'.data) <= ret'.arg
        /\ read_buffer # <<>> =>
              /\ ret'.res = "ok"
              /\ ret'.data = SubSeq(read_buffer, 1, min(ret'.arg, Len(read_buffer)))
              /\ read_buffer' = SubSeq(read_buffer, Len(ret'.data) + 1, Len(read_buffer))
              /\ incoming' = incoming
        /\ (read_buffer = <<>> /\ incoming # <<>>) =>
              /\ ret'.res = "ok"
              /\ incoming' = Tail(incoming)
              /\ ret'.data = SubSeq(incoming[1].data, 1,
                                    min(ret'.arg, Len(incoming[1].data)))
              /\ read_buffer' = SubSeq(incoming[1].data, Len(ret'.data) + 1,
                                       Len(incoming[1].data))
        /\ (read_buffer = <<>> /\ incoming = <<>>) =>
              /\ ret'.data = <<>>
              /\ UNCHANGED <<incoming, read_buffer>>
        /\ \/ ret'.data = <<>>
           \/ \E i \in 1..Len(rx) :
                 /\ rx[i].kind = "Bytes"
                 /\ Range(ret'.data) \subseteq Range(rx[i].data)]_vars

C29_Witness ==
    /\ ret.op = "read" /\ ret.arm = "buffer"
    /\ ret.data # <<>>
    /\ incoming # <<>>
    /\ incoming[1].data # <<>>

\* C30: a read with a non-empty buffer returns zero bytes only when the
\* inbound channel is closed and every byte received has been delivered.
C30_ZeroLengthReadMeansEof ==
    [][(ReadStep /\ ret'.arg > 0 /\ ret'.res = "ok" /\ ret'.data = <<>>) =>
        /\ InClosed
        /\ incoming = <<>>
        /\ delivered = AllReceived]_vars

\* C31: the inbound queue holds binary frames only, so no read takes the
\* non-binary branch and no pending read is left without a wake-up: a read
\* that returns Pending has its waker registered with the channel, and it is
\* woken when the receive pump queues a binary frame or ends.
C31_PendingReadIsAlwaysWoken ==
    [][/\ \A i \in 1..Len(incoming') : IsBinary(incoming'[i])
       /\ ReadStep => ret'.arm # "nonbinary"
       /\ (ReadStep /\ ret'.res = "pending") => waker' = "registered"
       /\ waker' # "lost"
       /\ (/\ waker = "registered"
           /\ \/ Len(incoming') > Len(incoming)
              \/ recvPc = "loop" /\ recvPc' = "done") => waker' = "woken"]_vars

C31_Witness ==
    /\ waker = "woken"
    /\ Len(rx) = 2
    /\ rx[1].kind = "Text" /\ rx[2].kind = "Bytes"
    /\ incoming # <<>>
    /\ ret.op = "read" /\ ret.res = "pending"

\* C32: poll_close returns success and changes nothing of the inbound
\* direction; on a channel already closed it changes nothing at all.  After
\* a close the receive pump still queues the frames that arrive and a read
\* still delivers them, in order.
C32_CloseLeavesInboundAlone ==
    [][/\ CloseStep =>
            /\ ret'.res = "ok"
            /\ UNCHANGED <<incoming, read_buffer, recvPc, srcEnd, rx, delivered, eofSeen>>
            /\ outClosed => UNCHANGED <<outgoing, outClosed, sendPc, wsSent, wsClosed>>
       /\ (ReadStep /\ outClosed) =>
            /\ delivered' = delivered \o ret'.data
            /\ IsPrefix(delivered', AllReceived)
            /\ (read_buffer # <<>> \/ incoming # <<>>) =>
                  /\ ret'.res = "ok"
                  /\ ret'.data = Take(read_buffer \o Flatten(DataOf(incoming)),
                                      Len(ret'.data))
                  /\ (ret'.data = <<>>) =
                        (ret'.arg = 0 \/ (read_buffer = <<>> /\ incoming[1].data = <<>>))
       /\ (outClosed /\ recvPc = "loop" /\ Len(rx') > Len(rx) /\ IsBinary(rx'[Len(rx')])) =>
            incoming' = Append(incoming, rx'[Len(rx')])]_vars

C32_Witness ==
    /\ outClosed
    /\ sendPc = "done"
    /\ accepted = <<>>
    /\ ret.op = "read" /\ ret.res = "ok"
    /\ Len(ret.data) = 2
    /\ recvPc = "loop"

\* C33: a call whose directory address has no usable host returns the
\* bad-directory-host failure at once, whatever the relay address is, and
\* has opened no WebSocket, started no handshake and written no request.
C33_DirectoryHostCheckedFirst ==
    (fpc # "idle" /\ ~DirectoryUsable) =>
        /\ fpc = "done"
        /\ fresult.res = "err"
        /\ fresult.err.variant = "BadDirectoryHost"
        /\ fresult.cause = "directory_host"
        /\ opened = <<>>
        /\ tls_stream = NoTls
        /\ requests = <<>>

C33_Witness ==
    /\ fpc = "done"
    /\ ~RelayUsable
    /\ host_str(directory) = Some("a..b")
    /\ fresult.err.variant = "BadDirectoryHost"

\* C34: a persist_payjoin or delete_payjoin for a public key leaves every
\* storage entry under another key as it was, inside and outside the payjoin
\* namespace, and adds or removes no other key; get_payjoin and get_payjoins
\* leave the whole storage as it was.
C34_StoreOperationsTouchOneKey ==
    [][/\ (PersistStep \/ DeleteStep) =>
            \A k \in (DOMAIN store \cup DOMAIN store') \ {PAYJOIN_KEY_PREFIX \o as_hex(pjRet'.id)} :
                /\ k \in DOMAIN store
                /\ k \in DOMAIN store'
                /\ store'[k] = store[k]
       /\ (GetStep \/ GetAllStep) => store' = store]_vars

C34_Witness ==
    /\ pjRet.op = "delete" /\ pjRet.res = "ok"
    /\ pjRet.prev # None
    /\ Expected # {}
    /\ ForeignKey \in DOMAIN store

\* C35: every Session stored in the payjoin namespace is stored under the
\* key of its own public key, and a Session returned by get_payjoin(id) has
\* the public key id.
C35_StoredSessionBelongsToItsKey ==
    /\ \A k \in DOMAIN store :
          starts_with(k, PAYJOIN_KEY_PREFIX) =>
              k = PAYJOIN_KEY_PREFIX \o as_hex(session_pubkey(store[k]))
    /\ (pjRet.op = "get" /\ pjRet.val # None) =>
          session_pubkey(pjRet.val[1]) = pjRet.id

C35_Witness ==
    /\ pjRet.op = "get" /\ pjRet.val # None
    /\ Cardinality(Expected) = 2
    /\ pjRet.val[1] \in Expected

\* C36: when the storage fails, the operation returns an error: no Session,
\* no None and no list comes back from it.
C36_StorageFailureIsReturned ==
    [][(pjTick' # pjTick /\ pjRet'.fault) =>
        /\ pjRet'.res = "err"
        /\ pjRet'.val = None
        /\ pjRet'.list = <<>>]_vars

C36_Witness ==
    /\ pjRet.op = "get" /\ pjRet.fault
    /\ pjRet.res = "err"
    /\ pjRet.prev # None

\* a storage, or a backup, in which no map holds two entries
OneEntryPerMap(st) ==
    /\ Cardinality(DOMAIN st.backups) <= 1
    /\ Cardinality(DOMAIN st.peer_connections) <= 1
    /\ \A pk \in DOMAIN st.backups :
            Cardinality(DOMAIN st.backups[pk].backup.monitors) <= 1
BackupRead == spc \in {"backup_read", "backup_again"}
StorageRead == spc \in {"read", "again"}

\* C37 as stated: decoding the bytes of an encoded StaticChannelBackup or
\* StaticChannelBackupStorage returns a value equal to the original, the
\* empty ones included, and encoding the value decoded from a storage with a
\* single entry returns the bytes decoded.
C37_ReencodingASingleEntryStorageGivesTheSameBytes ==
    /\ BackupRead => scb_read = Good(backup)
    /\ StorageRead => scb_read = Good(scb)
    /\ (spc = "again" /\ Cardinality(DOMAIN scb.backups) = 1
            /\ Cardinality(DOMAIN scb.peer_connections) <= 1)
        => scb_again = scb_bytes

\* C37 amended: decoding the bytes of an encoded StaticChannelBackup or
\* StaticChannelBackupStorage returns a value equal to the original, the
\* empty ones included; encoding the decoded value returns the bytes decoded
\* when no map of the value (backups, the monitors of each backup, peer
\* connections) holds two entries, and always returns bytes that decode to the
\* original again.
C37_DecodingReturnsTheValueEncoded ==
    /\ BackupRead => scb_read = Good(backup)
    /\ StorageRead => scb_read = Good(scb)
    /\ (spc = "again" /\ OneEntryPerMap(scb)) => scb_again = scb_bytes
    /\ (spc = "backup_again" /\ Cardinality(DOMAIN backup.monitors) <= 1)
        => scb_again = scb_bytes
    /\ spc = "again" => read_result(read_storage(scb_again[1])) = Good(scb)
    /\ spc = "backup_again" => read_result(read_backup(scb_again[1])) = Good(backup)

\* a storage with one backup that holds one monitor was encoded, decoded to an
\* equal value and encoded again to the same bytes
C37_Witness ==
    /\ spc = "again"
    /\ Cardinality(DOMAIN scb.backups) = 1
    /\ \A pk \in DOMAIN scb.backups :
            Cardinality(DOMAIN scb.backups[pk].backup.monitors) = 1
    /\ Cardinality(DOMAIN scb.peer_connections) = 1
    /\ scb_read = Good(scb)
    /\ scb_again = scb_bytes

\* C38: decrypting what encrypt returned for a storage, with the key it was
\* encrypted under, returns a value equal to the storage; parsing the string
\* form of an EncryptedSCB returns an EncryptedSCB equal to it.
C38_DecryptAndParseReturnTheOriginal ==
    /\ (decrypted.of = encrypted /\ decrypted.key = secret_key /\ encrypted # None)
        => decrypted.r = Good(scb)
    /\ (parsed.of = scb_string /\ scb_string # None)
        => parsed.r = Good(encrypted[1])

\* a storage that is not empty was encrypted, written as a string, parsed back
\* to the same EncryptedSCB and decrypted to the same storage
C38_Witness ==
    /\ spc = "decrypted"
    /\ scb.backups # EmptyMap
    /\ scb.peer_connections # EmptyMap
    /\ parsed.of = scb_string
    /\ parsed.r = Good(encrypted[1])
    /\ decrypted.of = encrypted
    /\ decrypted.key = secret_key
    /\ decrypted.r = Good(scb)

====
